---- MODULE Spec2Model ----
(***************************************************************************)
(* Order lifecycle, stock / order_count bookkeeping and the role gate of   *)
(* the go-shop backend (services/order.go, handlers/order.go, the admin    *)
(* handler, routes and middleware/role.go).                                *)
(*                                                                         *)
(* The database is the three tables products, orders, order_items plus the *)
(* user_roles table.  A service method is an operator from the database    *)
(* (and the request) to the database after the call and the error it       *)
(* returns ("" is a nil error).  Money (float64 in the source) is counted   *)
(* in whole units.  Row ids are the positions in the table: orders and     *)
(* order items are never deleted by any code path.                         *)
(***************************************************************************)
EXTENDS Integers, Sequences, FiniteSets, TLC

VARIABLES products, orders, orderItems, users, userRoles, now, last, procs

vars ==
  <<products, orders, orderItems, users, userRoles, now, last, procs>>

-----------------------------------------------------------------------------
(* Bounds of the model *)

MaxOrders == 2
MaxItems == 2
MaxQty == 2
MaxTime == 1
MaxUsers == 4
MaxRoleRows == 4
MaxStock == 3

-----------------------------------------------------------------------------
(* Constants of the program *)

OrderStatusPending == "pending"
OrderStatusPaid == "paid"
OrderStatusConfirmed == "confirmed"
OrderStatusShipped == "shipped"
OrderStatusDelivered == "delivered"
OrderStatusCancelled == "cancelled"

OrderStatus ==
  { OrderStatusPending, OrderStatusPaid, OrderStatusConfirmed,
    OrderStatusShipped, OrderStatusDelivered, OrderStatusCancelled }

ROLE_SUPER_ADMIN == "super_admin"
ROLE_SELLER == "seller"
ROLE_USER == "user"

-----------------------------------------------------------------------------
(* The population: three registered users, two catalog products and one    *)
(* product id that names no row.                                           *)

Users == {1, 2, 3}
ProductIDs == {1, 2, 3}
OrderIDs == 1 .. MaxOrders

InitProducts ==
  (1 :> [price |-> 10, stock |-> 2, order_count |-> 0]) @@
  (2 :> [price |-> 5, stock |-> 1, order_count |-> 0])

\* a row of user_roles: its id is its position in the table; deleted is
\* DeletedAt being set (Delete on a model with gorm.DeletedAt keeps the row)
UserRoleRow(userID, roleName) ==
  [user_id |-> userID, role |-> roleName, deleted |-> FALSE]

\* user 1 holds no assignment, user 2 is a seller, user 3 the super admin
InitUserRoles ==
  << UserRoleRow(2, ROLE_SELLER), UserRoleRow(3, ROLE_SUPER_ADMIN) >>

\* OrderItemRequest: product_id, quantity (binding min=1)
OrderItemRequest == [product_id : ProductIDs, quantity : 1 .. MaxQty]

\* OrderCreateRequest.Items (binding required, min=1)
OrderCreateRequest ==
  UNION { [1 .. n -> OrderItemRequest] : n \in 1 .. MaxItems }

NoFault == [step |-> "none", at |-> 0]

-----------------------------------------------------------------------------
(* The database as one value, and a transaction on it *)

DB == [products |-> products, orders |-> orders, orderItems |-> orderItems]

\* database.DB.Begin(): the transaction works on its own view of the rows
Begin(db) == db

\* Variant of Rollback: the writes made so far are left in place
RollbackKeepsWrites(db, tx) == tx

\* tx.Rollback(): none of the transaction's writes is persisted
Rollback(db, tx) == db

\* tx.Commit(): all of the transaction's writes are persisted together
Commit(db, tx) == tx

Result(db, err) == [db |-> db, err |-> err]

OrderExists(db, orderID) == orderID \in DOMAIN db.orders

\* Preload("OrderItems"): the rows of order_items with this order_id, by id
ItemsOf(db, orderID) ==
  SelectSeq(db.orderItems, LAMBDA it : it.order_id = orderID)

RECURSIVE SumSeq(_)
SumSeq(s) == IF s = <<>> THEN 0 ELSE Head(s) + SumSeq(Tail(s))

\* db.Save(&order): writes every column of the row read earlier
SaveOrder(db, orderID, row) ==
  [db EXCEPT !.orders = [@ EXCEPT ![orderID] = row]]

-----------------------------------------------------------------------------
(* OrderService.CreateOrder *)

\* fmt.Sprintf("ORD-%d-%d", time.Now().Unix(), userID): the clock second and
\* the user id, separated; two numbers are equal iff both parts are
OrderNumber(t, userID) == <<t, userID>>

\* the uniqueIndex on orders.order_number
OrderNumberTaken(db, orderNumber) ==
  \E i \in DOMAIN db.orders : db.orders[i].order_number = orderNumber

\* var product models.Product: the value the variable holds when First
\* finds no row
ZeroProduct == [price |-> 0, stock |-> 0, order_count |-> 0]

\* Variant of ProductFound: the error of First is not looked at
ProductFoundUnchecked(tx, productID) == TRUE

\* tx.First(&product, item.ProductID) returns no ErrRecordNotFound
ProductFound(tx, productID) == productID \in DOMAIN tx.products

\* the product the variable holds after tx.First(&product, item.ProductID)
ProductRow(tx, productID) ==
  IF productID \in DOMAIN tx.products
  THEN tx.products[productID] ELSE ZeroProduct

\* Variant of InsufficientStock: tests that some stock is left, not how much
InsufficientStockIgnoresQuantity(product, item) == product.stock <= 0

\* Variant of InsufficientStock: a quantity equal to the stock is refused
InsufficientStockOrEqual(product, item) == product.stock <= item.quantity

\* "Check stock": product.Stock < item.Quantity
InsufficientStock(product, item) == product.stock < item.quantity

\* The loop over req.Items from line k on: products are read in request
\* order and the first line that fails ends the call.
RECURSIVE CreateOrderLines(_, _, _, _)
CreateOrderLines(tx, req, k, fault) ==
  IF k > Len(req)
  THEN [err |-> "", items |-> <<>>, total |-> 0]
  ELSE
    LET item == req[k]
        product == ProductRow(tx, item.product_id)
    IN
    IF fault = [step |-> "load", at |-> k]
    THEN [err |-> "database error", items |-> <<>>, total |-> 0]
    ELSE IF ~ProductFound(tx, item.product_id)
    THEN [err |-> "product not found", items |-> <<>>, total |-> 0]
    ELSE IF InsufficientStock(product, item)
    THEN [err |-> "insufficient stock", items |-> <<>>, total |-> 0]
    ELSE
      LET rest == CreateOrderLines(tx, req, k + 1, fault) IN
      IF rest.err # ""
      THEN rest
      ELSE [err |-> "",
            items |-> << [product_id |-> item.product_id,
                          quantity |-> item.quantity,
                          price_at_moment |-> product.price] >> \o rest.items,
            total |-> product.price * item.quantity + rest.total]

\* orderItems[i].OrderID = order.ID
WithOrderID(items, orderID) ==
  [i \in 1 .. Len(items) |->
     [order_id |-> orderID, product_id |-> items[i].product_id,
      quantity |-> items[i].quantity,
      price_at_moment |-> items[i].price_at_moment]]

\* Variant of CreateOrder: the stock of the product of the first line is
\* taken when the order is created
CreateOrderReservesStock(db, userID, req, t, fault) ==
  LET tx == Begin(db)
      lines == CreateOrderLines(tx, req, 1, fault)
      orderNumber == OrderNumber(t, userID)
      orderID == Len(tx.orders) + 1
      order == [user_id |-> userID, order_number |-> orderNumber,
                status |-> OrderStatusPending, total_amount |-> lines.total]
      tx1 == [tx EXCEPT !.orders = Append(@, order)]
      tx2 == [tx1 EXCEPT
                !.orderItems = @ \o WithOrderID(lines.items, orderID),
                !.products[req[1].product_id].stock = @ - req[1].quantity]
  IN
  IF lines.err # ""
  THEN Result(Rollback(db, tx), lines.err)
  ELSE IF fault.step = "create_order" \/ OrderNumberTaken(tx, orderNumber)
  THEN Result(Rollback(db, tx), "failed to create order")
  ELSE Result(Commit(db, tx2), "")

CreateOrder(db, userID, req, t, fault) ==
  LET tx == Begin(db)
      lines == CreateOrderLines(tx, req, 1, fault)
      orderNumber == OrderNumber(t, userID)
      orderID == Len(tx.orders) + 1
      order == [user_id |-> userID, order_number |-> orderNumber,
                status |-> OrderStatusPending, total_amount |-> lines.total]
      tx1 == [tx EXCEPT !.orders = Append(@, order)]
      tx2 == [tx1 EXCEPT !.orderItems = @ \o WithOrderID(lines.items, orderID)]
  IN
  IF lines.err # ""
  THEN Result(Rollback(db, tx), lines.err)
  ELSE IF fault.step = "create_order" \/ OrderNumberTaken(tx, orderNumber)
  THEN Result(Rollback(db, tx), "failed to create order")
  ELSE IF fault.step = "create_items"
  THEN Result(Rollback(db, tx1), "failed to create order items")
  ELSE IF fault.step = "commit"
  THEN Result(Rollback(db, tx2), "failed to commit transaction")
  ELSE IF fault.step = "reload"
  THEN Result(Commit(db, tx2), "failed to load order")
  ELSE Result(Commit(db, tx2), "")

\* the points at which the store can fail a CreateOrder call
CreateOrderFaults(req) ==
  { NoFault }
  \cup { [step |-> "load", at |-> k] : k \in 1 .. Len(req) }
  \cup { [step |-> s, at |-> 0] :
           s \in { "create_order", "create_items", "commit", "reload" } }

-----------------------------------------------------------------------------
(* The status transitions of OrderService.  Each reads the order row,      *)
(* tests the status it read and saves the row with the new status.  A      *)
(* failure of the store in one of these single statements returns an       *)
(* error and writes nothing; store failures are modelled for the two       *)
(* transactions, CreateOrder and ConfirmOrder, that have writes to undo.   *)

\* Variant of OwnedOrderFound: the owner is not part of the query
OrderFoundAnyOwner(db, orderID, userID) == OrderExists(db, orderID)

\* Where("id = ? AND user_id = ?", orderID, userID).First(&order)
OwnedOrderFound(db, orderID, userID) ==
  OrderExists(db, orderID) /\ db.orders[orderID].user_id = userID

\* Variant of CannotBeCancelled: a delivered order is not excluded
CannotBeCancelledOnlyCancelled(order) ==
  order.status = OrderStatusCancelled

\* "Check if order can be cancelled"
CannotBeCancelled(order) ==
  order.status = OrderStatusDelivered \/ order.status = OrderStatusCancelled

\* Variant of PayOrderCheck: every order that is not terminal can be paid
PayOrderCheckUnlessTerminal(order) ==
  IF CannotBeCancelled(order)
  THEN "only pending orders can be paid" ELSE ""

PayOrderCheck(order) ==
  IF order.status # OrderStatusPending
  THEN "only pending orders can be paid" ELSE ""

ConfirmOrderCheck(order) ==
  IF order.status # OrderStatusPaid
  THEN "order must be paid before confirmation" ELSE ""

\* Variant of ShipOrderCheck: the status is not tested
ShipOrderCheckMissing(order) == ""

ShipOrderCheck(order) ==
  IF order.status # OrderStatusConfirmed
  THEN "order must be confirmed before shipping" ELSE ""

DeliverOrderCheck(order) ==
  IF order.status # OrderStatusShipped
  THEN "order must be shipped before delivery" ELSE ""

CancelOrderCheck(order) ==
  IF CannotBeCancelled(order) THEN "order cannot be cancelled" ELSE ""

\* Variant of UpdateOrderStatusCheck: the requested status is not tested
UpdateOrderStatusCheckAnyStatus(order, status) ==
  IF CannotBeCancelled(order) THEN "order cannot be cancelled" ELSE ""

UpdateOrderStatusCheck(order, status) ==
  IF status # OrderStatusCancelled THEN "users can only cancel orders"
  ELSE IF CannotBeCancelled(order) THEN "order cannot be cancelled"
  ELSE ""

\* Variant of SetStatus: the saved row also has its total reset
SetStatusResetsTotal(db, orderID, order, status) ==
  SaveOrder(db, orderID, [order EXCEPT !.status = status, !.total_amount = 0])

\* order.Status = <status>; database.DB.Save(&order)
SetStatus(db, orderID, order, status) ==
  SaveOrder(db, orderID, [order EXCEPT !.status = status])

\* models.OrderResponse with its OrderItems
OrderResponse(db, orderID) ==
  [id |-> orderID, user_id |-> db.orders[orderID].user_id,
   order_number |-> db.orders[orderID].order_number,
   status |-> db.orders[orderID].status,
   total_amount |-> db.orders[orderID].total_amount,
   order_items |-> ItemsOf(db, orderID)]

\* Variant of GetOrderByID: the order is looked up by id and the owner is
\* compared afterwards, with an answer of its own
GetOrderByIDThenOwner(db, orderID, userID) ==
  IF ~OrderExists(db, orderID)
  THEN [db |-> db, err |-> "order not found", data |-> <<>>]
  ELSE IF db.orders[orderID].user_id # userID
  THEN [db |-> db, err |-> "access denied", data |-> <<>>]
  ELSE [db |-> db, err |-> "", data |-> << OrderResponse(db, orderID) >>]

\* the answer is (nil, error) or (&OrderResponse, nil); nothing is written
GetOrderByID(db, orderID, userID) ==
  IF ~OwnedOrderFound(db, orderID, userID)
  THEN [db |-> db, err |-> "order not found", data |-> <<>>]
  ELSE [db |-> db, err |-> "", data |-> << OrderResponse(db, orderID) >>]

UpdateOrderStatus(db, orderID, userID, status) ==
  IF ~OwnedOrderFound(db, orderID, userID) THEN Result(db, "order not found")
  ELSE
    LET order == db.orders[orderID] IN
    IF UpdateOrderStatusCheck(order, status) # ""
    THEN Result(db, UpdateOrderStatusCheck(order, status))
    ELSE Result(SetStatus(db, orderID, order, status), "")

\* Variant of PayOrder: an order that is not pending is answered as paid
\* without being touched
PayOrderSilentNoOp(db, orderID, userID) ==
  IF ~OwnedOrderFound(db, orderID, userID) THEN Result(db, "order not found")
  ELSE
    LET order == db.orders[orderID] IN
    IF PayOrderCheck(order) # "" THEN Result(db, "")
    ELSE Result(SetStatus(db, orderID, order, OrderStatusPaid), "")

PayOrder(db, orderID, userID) ==
  IF ~OwnedOrderFound(db, orderID, userID) THEN Result(db, "order not found")
  ELSE
    LET order == db.orders[orderID] IN
    IF PayOrderCheck(order) # "" THEN Result(db, PayOrderCheck(order))
    ELSE Result(SetStatus(db, orderID, order, OrderStatusPaid), "")

ShipOrder(db, orderID) ==
  IF ~OrderExists(db, orderID) THEN Result(db, "order not found")
  ELSE
    LET order == db.orders[orderID] IN
    IF ShipOrderCheck(order) # "" THEN Result(db, ShipOrderCheck(order))
    ELSE Result(SetStatus(db, orderID, order, OrderStatusShipped), "")

DeliverOrder(db, orderID) ==
  IF ~OrderExists(db, orderID) THEN Result(db, "order not found")
  ELSE
    LET order == db.orders[orderID] IN
    IF DeliverOrderCheck(order) # "" THEN Result(db, DeliverOrderCheck(order))
    ELSE Result(SetStatus(db, orderID, order, OrderStatusDelivered), "")

\* Variant of CancelOrder: the quantities of an order that had been
\* confirmed are put back into stock
CancelOrderRestoresStock(db, orderID) ==
  IF ~OrderExists(db, orderID) THEN Result(db, "order not found")
  ELSE
    LET order == db.orders[orderID]
        items == ItemsOf(db, orderID)
        back(p) == SumSeq([k \in 1 .. Len(items) |->
                             IF items[k].product_id = p
                             THEN items[k].quantity ELSE 0])
        restocked ==
          [db EXCEPT !.products =
             [p \in DOMAIN db.products |->
                [db.products[p] EXCEPT !.stock = @ + back(p)]]]
    IN
    IF CancelOrderCheck(order) # "" THEN Result(db, CancelOrderCheck(order))
    ELSE IF order.status \in { OrderStatusConfirmed, OrderStatusShipped }
    THEN Result(SetStatus(restocked, orderID, order, OrderStatusCancelled), "")
    ELSE Result(SetStatus(db, orderID, order, OrderStatusCancelled), "")

CancelOrder(db, orderID) ==
  IF ~OrderExists(db, orderID) THEN Result(db, "order not found")
  ELSE
    LET order == db.orders[orderID] IN
    IF CancelOrderCheck(order) # "" THEN Result(db, CancelOrderCheck(order))
    ELSE Result(SetStatus(db, orderID, order, OrderStatusCancelled), "")

-----------------------------------------------------------------------------
(* OrderService.ConfirmOrder *)

\* Variant of UpdateStock: one unit is taken whatever the quantity
UpdateStockByOne(tx, productID, quantity) ==
  IF productID \in DOMAIN tx.products
  THEN [tx EXCEPT !.products[productID].stock = @ - 1]
  ELSE tx

\* Update("stock", gorm.Expr("stock - ?", item.Quantity)) Where id = ?
UpdateStock(tx, productID, quantity) ==
  IF productID \in DOMAIN tx.products
  THEN [tx EXCEPT !.products[productID].stock = @ - quantity]
  ELSE tx

\* Update("order_count", gorm.Expr("order_count + 1")) Where id = ?
UpdateOrderCount(tx, productID) ==
  IF productID \in DOMAIN tx.products
  THEN [tx EXCEPT !.products[productID].order_count = @ + 1]
  ELSE tx

RECURSIVE ConfirmOrderItemsCountQuantity(_, _, _, _)
\* Variant of ConfirmOrderItems: order_count is raised by the quantity of
\* the line
ConfirmOrderItemsCountQuantity(tx, items, k, fault) ==
  IF k > Len(items)
  THEN [tx |-> tx, err |-> ""]
  ELSE IF fault = [step |-> "stock", at |-> k]
  THEN [tx |-> tx, err |-> "failed to update product stock"]
  ELSE
    LET tx1 == UpdateStock(tx, items[k].product_id, items[k].quantity) IN
    IF fault = [step |-> "count", at |-> k]
    THEN [tx |-> tx1, err |-> "failed to update product order count"]
    ELSE ConfirmOrderItemsCountQuantity(
           [tx1 EXCEPT !.products[items[k].product_id].order_count =
                         @ + items[k].quantity],
           items, k + 1, fault)

\* The loop over order.OrderItems from item k on, inside the transaction
RECURSIVE ConfirmOrderItems(_, _, _, _)
ConfirmOrderItems(tx, items, k, fault) ==
  IF k > Len(items)
  THEN [tx |-> tx, err |-> ""]
  ELSE IF fault = [step |-> "stock", at |-> k]
  THEN [tx |-> tx, err |-> "failed to update product stock"]
  ELSE
    LET tx1 == UpdateStock(tx, items[k].product_id, items[k].quantity) IN
    IF fault = [step |-> "count", at |-> k]
    THEN [tx |-> tx1, err |-> "failed to update product order count"]
    ELSE ConfirmOrderItems(UpdateOrderCount(tx1, items[k].product_id),
                           items, k + 1, fault)

ConfirmOrder(db, orderID, fault) ==
  LET tx == Begin(db) IN
  IF fault.step = "load" THEN Result(Rollback(db, tx), "database error")
  ELSE IF ~OrderExists(tx, orderID) THEN Result(Rollback(db, tx), "order not found")
  ELSE
    LET order == tx.orders[orderID]
        items == ItemsOf(tx, orderID)
    IN
    IF ConfirmOrderCheck(order) # ""
    THEN Result(Rollback(db, tx), ConfirmOrderCheck(order))
    ELSE
      LET upd == ConfirmOrderItems(tx, items, 1, fault)
          tx2 == SaveOrder(upd.tx, orderID,
                           [order EXCEPT !.status = OrderStatusConfirmed])
      IN
      IF upd.err # "" THEN Result(Rollback(db, upd.tx), upd.err)
      ELSE IF fault.step = "save"
      THEN Result(Rollback(db, upd.tx), "failed to update order status")
      ELSE IF fault.step = "commit"
      THEN Result(Rollback(db, tx2), "failed to commit transaction")
      ELSE Result(Commit(db, tx2), "")

\* the points at which the store can fail a ConfirmOrder call
ConfirmOrderFaults(db, orderID) ==
  { NoFault }
  \cup { [step |-> s, at |-> 0] : s \in { "load", "save", "commit" } }
  \cup { [step |-> s, at |-> k] :
           s \in { "stock", "count" }, k \in 1 .. Len(ItemsOf(db, orderID)) }

-----------------------------------------------------------------------------
(* ProductService.UpdateProduct *)

\* ProductUpdateRequest: Price and Stock are pointers, here the empty set
\* for nil and a singleton for a value (binding min=0); the other fields of
\* the request do not bear on orders
ProductUpdateRequest == [price : { {}, {7} }, stock : { {}, {2} }]

\* the value a pointer field of the request sets, the old one when it is nil
FieldOr(field, old) == IF field = {} THEN old ELSE CHOOSE v \in field : TRUE

\* Variant of UpdateProduct: the line items of the product are repriced too
UpdateProductRepricesItems(db, productID, req) ==
  IF productID \notin DOMAIN db.products THEN Result(db, "product not found")
  ELSE Result([db EXCEPT
                 !.products[productID].price = FieldOr(req.price, @),
                 !.products[productID].stock = FieldOr(req.stock, @),
                 !.orderItems =
                   [i \in DOMAIN @ |->
                      IF @[i].product_id = productID
                      THEN [@[i] EXCEPT
                              !.price_at_moment = FieldOr(req.price, @)]
                      ELSE @[i]]], "")

\* First(&product, productID); the fields of the request that are set;
\* database.DB.Save(&product)
UpdateProduct(db, productID, req) ==
  IF productID \notin DOMAIN db.products THEN Result(db, "product not found")
  ELSE Result([db EXCEPT
                 !.products[productID].price = FieldOr(req.price, @),
                 !.products[productID].stock = FieldOr(req.stock, @)], "")

\* Variant of ProductService_UpdateStock: the update counts as an order
ProductService_UpdateStockCounts(db, productID, quantity) ==
  IF productID \notin DOMAIN db.products THEN Result(db, "product not found")
  ELSE IF db.products[productID].stock + quantity < 0
  THEN Result(db, "insufficient stock")
  ELSE Result([db EXCEPT !.products[productID].stock = @ + quantity,
                         !.products[productID].order_count = @ + 1], "")

\* ProductService.UpdateStock: First(&product, productID); newStock :=
\* product.Stock + quantity; Update("stock", newStock) unless it is negative
ProductService_UpdateStock(db, productID, quantity) ==
  IF productID \notin DOMAIN db.products THEN Result(db, "product not found")
  ELSE IF db.products[productID].stock + quantity < 0
  THEN Result(db, "insufficient stock")
  ELSE Result([db EXCEPT !.products[productID].stock = @ + quantity], "")

-----------------------------------------------------------------------------
(* The role gate (middleware/role.go) and the routes *)

\* the rows of user_roles a query sees: those whose DeletedAt is not set
ActiveRows(roles, userID) ==
  { i \in DOMAIN roles : ~roles[i].deleted /\ roles[i].user_id = userID }

\* Variant of RoleMiddleware: the roles are those the user has ever been
\* given, as a token issued before the change records them
RoleMiddlewareEverHeld(roles, requiredRole, userID) ==
  \E i \in DOMAIN roles :
    roles[i].user_id = userID /\ roles[i].role = requiredRole

\* RoleMiddleware: user.Roles, preloaded from user_roles, holds requiredRole
RoleMiddleware(roles, requiredRole, userID) ==
  \E i \in ActiveRows(roles, userID) : roles[i].role = requiredRole

\* Variant of SuperAdminMiddleware: any role row of the user is accepted
SuperAdminMiddlewareAnyRole(roles, userID) ==
  ActiveRows(roles, userID) # {}

SuperAdminMiddleware(roles, userID) ==
  RoleMiddleware(roles, ROLE_SUPER_ADMIN, userID)

SellerMiddleware(roles, userID) ==
  \E i \in ActiveRows(roles, userID) :
    roles[i].role = ROLE_SELLER \/ roles[i].role = ROLE_SUPER_ADMIN

\* Variant of GetUserRole: no default when the user has no row
GetUserRoleNoDefault(roles, userID) ==
  IF ActiveRows(roles, userID) = {} THEN ""
  ELSE LET i == CHOOSE i \in ActiveRows(roles, userID) :
                  \A j \in ActiveRows(roles, userID) : i <= j
       IN roles[i].role

\* RoleService.GetUserRole: Where("user_id = ?").First(&userRole) is the
\* user's row of lowest id; "user" when there is none
GetUserRole(roles, userID) ==
  IF ActiveRows(roles, userID) = {} THEN ROLE_USER
  ELSE LET i == CHOOSE i \in ActiveRows(roles, userID) :
                  \A j \in ActiveRows(roles, userID) : i <= j
       IN roles[i].role

AccessDenied == "Access denied"

\* POST /orders
OrderHandler_CreateOrder(db, userID, req, t, fault) ==
  CreateOrder(db, userID, req, t, fault)

\* PUT /orders/:id
OrderHandler_UpdateOrderStatus(db, userID, orderID, status) ==
  UpdateOrderStatus(db, orderID, userID, status)

\* POST /orders/:id/pay
OrderHandler_PayOrder(db, userID, orderID) ==
  PayOrder(db, orderID, userID)

\* POST /orders/:id/cancel: the user id of the context is only tested for
\* presence; the service is called with the order id alone
OrderHandler_CancelOrder(db, userID, orderID) ==
  CancelOrder(db, orderID)

\* POST /super-admin/orders/:id/confirm
AdminHandler_ConfirmOrder(db, roles, userID, orderID, fault) ==
  IF ~SuperAdminMiddleware(roles, userID) THEN Result(db, AccessDenied)
  ELSE ConfirmOrder(db, orderID, fault)

\* POST /super-admin/orders/:id/ship and POST /seller/orders/:id/ship
AdminHandler_ShipOrder(db, roles, route, userID, orderID) ==
  IF route = "super-admin" /\ ~SuperAdminMiddleware(roles, userID)
  THEN Result(db, AccessDenied)
  ELSE IF route = "seller" /\ ~SellerMiddleware(roles, userID)
  THEN Result(db, AccessDenied)
  ELSE ShipOrder(db, orderID)

\* POST /super-admin/orders/:id/deliver
AdminHandler_DeliverOrder(db, roles, userID, orderID) ==
  IF ~SuperAdminMiddleware(roles, userID) THEN Result(db, AccessDenied)
  ELSE DeliverOrder(db, orderID)

\* POST /super-admin/orders/:id/cancel
AdminHandler_CancelOrder(db, roles, userID, orderID) ==
  IF ~SuperAdminMiddleware(roles, userID) THEN Result(db, AccessDenied)
  ELSE CancelOrder(db, orderID)

\* PUT /super-admin/products/:id and PUT /seller/products/:id
AdminHandler_UpdateProduct(db, roles, route, userID, productID, req) ==
  IF route = "super-admin" /\ ~SuperAdminMiddleware(roles, userID)
  THEN Result(db, AccessDenied)
  ELSE IF route = "seller" /\ ~SellerMiddleware(roles, userID)
  THEN Result(db, AccessDenied)
  ELSE UpdateProduct(db, productID, req)

-----------------------------------------------------------------------------
(* RoleService and the registration of a user (AuthService.VerifyOTP).     *)
(* The role database is the users table (the ids of the registered users,  *)
(* never deleted) and the user_roles table.                                *)

RDB == [users |-> users, userRoles |-> userRoles]

\* the roles table: createDefaultRoles at migration
RoleTable == { ROLE_SUPER_ADMIN, ROLE_SELLER, ROLE_USER }

\* the role names a caller may send: the three roles and an unknown one
RoleNames == RoleTable \cup { "manager" }

\* Variant of DeleteUserRoles: the rows of the user are left as they are
DeleteUserRolesSkipped(tx, userID) == tx

\* tx.Where("user_id = ?", userID).Delete(&models.UserRole{})
DeleteUserRoles(tx, userID) ==
  [tx EXCEPT !.userRoles =
     [i \in DOMAIN @ |->
        IF @[i].user_id = userID THEN [@[i] EXCEPT !.deleted = TRUE]
        ELSE @[i]]]

\* tx.Create(&userRole)
CreateUserRole(tx, userID, roleName) ==
  [tx EXCEPT !.userRoles = Append(@, UserRoleRow(userID, roleName))]

\* Variant of RoleFound: the result of the lookup is not tested
RoleFoundUnchecked(roleName) == TRUE

\* database.DB.Where("name = ?", roleName).First(&role) finds a row
RoleFound(roleName) == roleName \in RoleTable

\* database.DB.First(&user, userID) finds a row
UserFound(rdb, userID) == userID \in rdb.users

\* Variant of AssignRole: a call that names the caller is refused
AssignRoleNotToSelf(rdb, userID, roleName, assignedBy, fault) ==
  IF GetUserRole(rdb.userRoles, assignedBy) # ROLE_SUPER_ADMIN
  THEN Result(rdb, "only super admin can assign roles")
  ELSE IF userID = assignedBy
  THEN Result(rdb, "cannot change your own role")
  ELSE IF ~RoleFound(roleName) THEN Result(rdb, "role not found")
  ELSE IF ~UserFound(rdb, userID) THEN Result(rdb, "user not found")
  ELSE IF fault.step = "begin"
  THEN Result(rdb, "failed to start transaction")
  ELSE
    LET tx == Begin(rdb)
        tx1 == DeleteUserRoles(tx, userID)
        tx2 == CreateUserRole(tx1, userID, roleName)
    IN
    IF fault.step = "delete"
    THEN Result(Rollback(rdb, tx), "failed to remove existing role")
    ELSE IF fault.step = "create"
    THEN Result(Rollback(rdb, tx1), "failed to assign role")
    ELSE IF fault.step = "commit"
    THEN Result(Rollback(rdb, tx2), "failed to commit role assignment")
    ELSE Result(Commit(rdb, tx2), "")

AssignRole(rdb, userID, roleName, assignedBy, fault) ==
  IF GetUserRole(rdb.userRoles, assignedBy) # ROLE_SUPER_ADMIN
  THEN Result(rdb, "only super admin can assign roles")
  ELSE IF ~RoleFound(roleName) THEN Result(rdb, "role not found")
  ELSE IF ~UserFound(rdb, userID) THEN Result(rdb, "user not found")
  ELSE IF fault.step = "begin"
  THEN Result(rdb, "failed to start transaction")
  ELSE
    LET tx == Begin(rdb)
        tx1 == DeleteUserRoles(tx, userID)
        tx2 == CreateUserRole(tx1, userID, roleName)
    IN
    IF fault.step = "delete"
    THEN Result(Rollback(rdb, tx), "failed to remove existing role")
    ELSE IF fault.step = "create"
    THEN Result(Rollback(rdb, tx1), "failed to assign role")
    ELSE IF fault.step = "commit"
    THEN Result(Rollback(rdb, tx2), "failed to commit role assignment")
    ELSE Result(Commit(rdb, tx2), "")

\* Variant of RemovesOwnRole: the two ids are not compared
RemovesOwnRoleUnchecked(userID, removedBy) == FALSE

\* userID == removedBy
RemovesOwnRole(userID, removedBy) == userID = removedBy

\* Variant of HasRoleToRemove: the lookup of the row is left out
HasRoleToRemoveUnchecked(rdb, userID) == TRUE

\* database.DB.Where("user_id = ?", userID).First(&userRole) finds a row
HasRoleToRemove(rdb, userID) == ActiveRows(rdb.userRoles, userID) # {}

RemoveRole(rdb, userID, removedBy, fault) ==
  IF GetUserRole(rdb.userRoles, removedBy) # ROLE_SUPER_ADMIN
  THEN Result(rdb, "only super admin can remove roles")
  ELSE IF RemovesOwnRole(userID, removedBy)
  THEN Result(rdb, "cannot remove your own role")
  ELSE IF ~UserFound(rdb, userID) THEN Result(rdb, "user not found")
  ELSE IF ~HasRoleToRemove(rdb, userID)
  THEN Result(rdb, "user has no role to remove")
  ELSE IF fault.step = "begin"
  THEN Result(rdb, "failed to start transaction")
  ELSE
    LET tx == Begin(rdb)
        tx1 == DeleteUserRoles(tx, userID)
    IN
    IF fault.step = "delete"
    THEN Result(Rollback(rdb, tx), "failed to remove role")
    ELSE IF fault.step = "commit"
    THEN Result(Rollback(rdb, tx1), "failed to commit role removal")
    ELSE Result(Commit(rdb, tx1), "")

\* log.Printf("Role assigned: User %d assigned role %s by user %d", ...):
\* the lines the call writes to the log, the last statement before return nil
AssignRoleLog(rdb, userID, roleName, assignedBy, fault) ==
  IF AssignRole(rdb, userID, roleName, assignedBy, fault).err = ""
  THEN << [event |-> "Role assigned", target |-> userID, role |-> roleName,
           actor |-> assignedBy] >>
  ELSE << >>

\* log.Printf("Role removed: User %d role removed by user %d", ...)
RemoveRoleLog(rdb, userID, removedBy, fault) ==
  IF RemoveRole(rdb, userID, removedBy, fault).err = ""
  THEN << [event |-> "Role removed", target |-> userID, role |-> "",
           actor |-> removedBy] >>
  ELSE << >>

\* the points at which the store can fail the transaction of a role call
RoleFaults ==
  { NoFault }
  \cup { [step |-> s, at |-> 0] : s \in { "begin", "delete", "create", "commit" } }

\* AuthService.VerifyOTP, from "Create user in database" on: the new user
\* gets the next id and, unless the insert fails, a row with the role "user"
VerifyOTP(rdb, fault) ==
  IF fault.step = "create_user" THEN Result(rdb, "failed to create user")
  ELSE
    LET id == Cardinality(rdb.users) + 1
        db1 == [rdb EXCEPT !.users = @ \cup { id }]
    IN
    IF fault.step = "create_role" THEN Result(db1, "")
    ELSE Result(CreateUserRole(db1, id, ROLE_USER), "")

VerifyOTPFaults ==
  { NoFault, [step |-> "create_user", at |-> 0],
    [step |-> "create_role", at |-> 0] }

\* POST /super-admin/roles/assign (role: oneof super_admin seller user)
RoleHandler_AssignRole(rdb, currentUserID, userID, roleName, fault) ==
  IF ~SuperAdminMiddleware(rdb.userRoles, currentUserID)
  THEN Result(rdb, AccessDenied)
  ELSE IF roleName \notin { ROLE_SUPER_ADMIN, ROLE_SELLER, ROLE_USER }
  THEN Result(rdb, "Invalid request data")
  ELSE AssignRole(rdb, userID, roleName, currentUserID, fault)

\* DELETE /super-admin/roles/remove
RoleHandler_RemoveRole(rdb, currentUserID, userID, fault) ==
  IF ~SuperAdminMiddleware(rdb.userRoles, currentUserID)
  THEN Result(rdb, AccessDenied)
  ELSE RemoveRole(rdb, userID, currentUserID, fault)

-----------------------------------------------------------------------------
(* The state machine: one request served at a time *)

\* the requests in flight of the interleaved specification
Procs == {1, 2}

NoOrder ==
  [user_id |-> 0, order_number |-> <<0, 0>>, status |-> "none",
   total_amount |-> 0]

Idle == [pc |-> "idle", op |-> "none", oid |-> 0, order |-> NoOrder]

EmptyDB == [products |-> InitProducts, orders |-> <<>>, orderItems |-> <<>>]

Init ==
  /\ products = EmptyDB.products
  /\ orders = EmptyDB.orders
  /\ orderItems = EmptyDB.orderItems
  /\ users = Users
  /\ userRoles = InitUserRoles
  /\ now = 0
  /\ last = [op |-> "none", err |-> ""]
  /\ procs = [p \in Procs |-> Idle]

\* the response of a request: the rows it persisted and what it answered
Respond(op, r) ==
  /\ products' = r.db.products
  /\ orders' = r.db.orders
  /\ orderItems' = r.db.orderItems
  /\ last' = [op |-> op, err |-> r.err]
  /\ UNCHANGED <<users, userRoles, now, procs>>

ReqCreateOrder(callers, reqs) ==
  \E u \in callers, req \in reqs :
    \E fault \in CreateOrderFaults(req) :
      LET r == OrderHandler_CreateOrder(DB, u, req, now, fault) IN
      /\ Len(r.db.orders) <= MaxOrders
      /\ Respond("CreateOrder", r)

ReqUpdateOrderStatus ==
  \E u \in Users, oid \in OrderIDs, st \in OrderStatus :
    Respond("UpdateOrderStatus", OrderHandler_UpdateOrderStatus(DB, u, oid, st))

ReqPayOrder ==
  \E u \in Users, oid \in OrderIDs :
    Respond("PayOrder", OrderHandler_PayOrder(DB, u, oid))

ReqCancelOrder ==
  \E u \in Users, oid \in OrderIDs :
    Respond("CancelOrder", OrderHandler_CancelOrder(DB, u, oid))

ReqAdminConfirmOrder ==
  \E u \in Users, oid \in OrderIDs :
    \E fault \in IF SuperAdminMiddleware(userRoles, u)
                 THEN ConfirmOrderFaults(DB, oid) ELSE { NoFault } :
      Respond("ConfirmOrder",
              AdminHandler_ConfirmOrder(DB, userRoles, u, oid, fault))

ReqAdminShipOrder ==
  \E u \in Users, oid \in OrderIDs, route \in { "super-admin", "seller" } :
    Respond("ShipOrder", AdminHandler_ShipOrder(DB, userRoles, route, u, oid))

ReqAdminDeliverOrder ==
  \E u \in Users, oid \in OrderIDs :
    Respond("DeliverOrder", AdminHandler_DeliverOrder(DB, userRoles, u, oid))

ReqAdminCancelOrder ==
  \E u \in Users, oid \in OrderIDs :
    Respond("AdminCancelOrder", AdminHandler_CancelOrder(DB, userRoles, u, oid))

\* time.Now().Unix() moves on between requests
Tick ==
  /\ now < MaxTime
  /\ now' = now + 1
  /\ UNCHANGED <<products, orders, orderItems, users, userRoles, last, procs>>

\* The carts of the lifecycle specification: one line, two lines of two
\* products, two lines of the same product, and a line the stock cannot serve
Line(p, q) == [product_id |-> p, quantity |-> q]

Carts ==
  { << Line(1, 2) >>, << Line(1, 1), Line(2, 1) >>,
    << Line(1, 2), Line(1, 1) >>, << Line(2, 2) >> }

\* Requests served one at a time, all within one second of the clock
Next ==
  \/ ReqCreateOrder(Users, Carts)
  \/ ReqUpdateOrderStatus
  \/ ReqPayOrder
  \/ ReqCancelOrder
  \/ ReqAdminConfirmOrder
  \/ ReqAdminShipOrder
  \/ ReqAdminDeliverOrder
  \/ ReqAdminCancelOrder

Spec == Init /\ [][Next]_vars

\* Checkout alone, with every cart and a clock that moves
NextCreate ==
  \/ ReqCreateOrder({1, 2}, OrderCreateRequest)
  \/ Tick

SpecCreate == Init /\ [][NextCreate]_vars

-----------------------------------------------------------------------------
(* Requests served concurrently.  Every request is handled by its own      *)
(* worker and the statements of two requests interleave: a request first   *)
(* reads the order row and tests the status it read (Load), and later      *)
(* writes the row back (Save).  ConfirmOrder reads inside its transaction; *)
(* what it writes becomes visible to the others at its commit, all at      *)
(* once, which is the step Save models for it.                             *)

ConcOps ==
  { "PayOrder", "UpdateOrderStatus", "CancelOrder",
    "ConfirmOrder", "ShipOrder", "DeliverOrder" }

\* the middleware in front of the route of the operation
GateOf(op, roles, userID) ==
  CASE op \in { "ConfirmOrder", "DeliverOrder" } ->
         SuperAdminMiddleware(roles, userID)
    [] op = "ShipOrder" -> SellerMiddleware(roles, userID)
    [] OTHER -> TRUE

\* the First(&order) of the operation
FoundBy(op, db, orderID, userID) ==
  IF op \in { "PayOrder", "UpdateOrderStatus" }
  THEN OwnedOrderFound(db, orderID, userID)
  ELSE OrderExists(db, orderID)

\* the test of the status read (UpdateOrderStatus is asked for cancelled)
CheckOf(op, order) ==
  CASE op = "PayOrder" -> PayOrderCheck(order)
    [] op = "UpdateOrderStatus" ->
         UpdateOrderStatusCheck(order, OrderStatusCancelled)
    [] op = "CancelOrder" -> CancelOrderCheck(order)
    [] op = "ConfirmOrder" -> ConfirmOrderCheck(order)
    [] op = "ShipOrder" -> ShipOrderCheck(order)
    [] op = "DeliverOrder" -> DeliverOrderCheck(order)

\* the status the operation assigns before it saves
TargetOf(op) ==
  CASE op = "PayOrder" -> OrderStatusPaid
    [] op \in { "UpdateOrderStatus", "CancelOrder" } -> OrderStatusCancelled
    [] op = "ConfirmOrder" -> OrderStatusConfirmed
    [] op = "ShipOrder" -> OrderStatusShipped
    [] op = "DeliverOrder" -> OrderStatusDelivered

\* the request is refused by the gate, finds no order, or reads a status
\* its operation does not accept: it answers the error and writes nothing
Reject(p, op, u, oid) ==
  /\ procs[p].pc = "idle"
  /\ LET err ==
           IF ~GateOf(op, userRoles, u) THEN AccessDenied
           ELSE IF ~FoundBy(op, DB, oid, u) THEN "order not found"
           ELSE CheckOf(op, orders[oid])
     IN /\ err # ""
        /\ last' = [op |-> op, err |-> err]
  /\ UNCHANGED <<products, orders, orderItems, users, userRoles, now, procs>>

\* the request has read the order row and accepted the status it read
Load(p, op, u, oid) ==
  /\ procs[p].pc = "idle"
  /\ GateOf(op, userRoles, u)
  /\ FoundBy(op, DB, oid, u)
  /\ CheckOf(op, orders[oid]) = ""
  /\ procs' = [procs EXCEPT
                 ![p] = [pc |-> "loaded", op |-> op, oid |-> oid,
                         order |-> orders[oid]]]
  /\ UNCHANGED <<products, orders, orderItems, users, userRoles, now, last>>

\* the request saves the row it read, with the new status
Save(p) ==
  /\ procs[p].pc = "loaded"
  /\ LET op == procs[p].op
         oid == procs[p].oid
         tx == IF op = "ConfirmOrder"
               THEN ConfirmOrderItems(Begin(DB), ItemsOf(DB, oid), 1, NoFault).tx
               ELSE DB
         db == SetStatus(tx, oid, procs[p].order, TargetOf(op))
     IN /\ products' = db.products
        /\ orders' = db.orders
        /\ orderItems' = db.orderItems
        /\ last' = [op |-> op, err |-> ""]
  /\ procs' = [procs EXCEPT ![p] = Idle]
  /\ UNCHANGED <<users, userRoles, now>>

\* one order, placed by user 1, is there when the requests start
InitConc ==
  LET r == CreateOrder(EmptyDB, 1, << Line(1, 1), Line(2, 1) >>, 0, NoFault) IN
  /\ products = r.db.products
  /\ orders = r.db.orders
  /\ orderItems = r.db.orderItems
  /\ users = Users
  /\ userRoles = InitUserRoles
  /\ now = 0
  /\ last = [op |-> "CreateOrder", err |-> r.err]
  /\ procs = [p \in Procs |-> Idle]

NextConc ==
  \/ \E p \in Procs, op \in ConcOps, u \in Users, oid \in OrderIDs :
       Reject(p, op, u, oid)
  \/ \E p \in Procs, op \in ConcOps, u \in Users, oid \in OrderIDs :
       Load(p, op, u, oid)
  \/ \E p \in Procs : Save(p)

SpecConc == InitConc /\ [][NextConc]_vars

-----------------------------------------------------------------------------
(* Role management requests, and the order lifecycle under changing roles *)

\* the response of a role request
RespondRole(op, r) ==
  /\ Cardinality(r.db.users) <= MaxUsers
  /\ Len(r.db.userRoles) <= MaxRoleRows
  /\ users' = r.db.users
  /\ userRoles' = r.db.userRoles
  /\ last' = [op |-> op, err |-> r.err]
  /\ UNCHANGED <<products, orders, orderItems, now, procs>>

\* the user ids a request may name: the registered ones and unused ones
UserIDs == 1 .. MaxUsers

ReqAssignRole ==
  \E actor \in users, target \in UserIDs, roleName \in RoleNames :
    \E fault \in IF SuperAdminMiddleware(userRoles, actor)
                 THEN RoleFaults ELSE { NoFault } :
      RespondRole("AssignRole",
                  RoleHandler_AssignRole(RDB, actor, target, roleName, fault))

ReqRemoveRole ==
  \E actor \in users, target \in UserIDs :
    \E fault \in IF SuperAdminMiddleware(userRoles, actor)
                 THEN RoleFaults \ { [step |-> "create", at |-> 0] }
                 ELSE { NoFault } :
      RespondRole("RemoveRole",
                  RoleHandler_RemoveRole(RDB, actor, target, fault))

\* POST /auth/verify-otp with the OTP that was sent
ReqVerifyOTP ==
  \E fault \in VerifyOTPFaults :
    RespondRole("VerifyOTP", VerifyOTP(RDB, fault))

\* One order on its way through the lifecycle while roles are assigned and
\* removed
NextGate ==
  \/ ReqPayOrder
  \/ ReqAdminConfirmOrder
  \/ ReqAdminShipOrder
  \/ ReqAdminDeliverOrder
  \/ ReqAdminCancelOrder
  \/ ReqAssignRole
  \/ ReqRemoveRole

SpecGate == InitConc /\ [][NextGate]_vars

\* Role management and registration alone
NextRoles ==
  \/ ReqAssignRole
  \/ ReqRemoveRole
  \/ ReqVerifyOTP

SpecRoles == Init /\ [][NextRoles]_vars

-----------------------------------------------------------------------------
(* Orders and their lifecycle while the catalog is edited *)

ReqUpdateProduct ==
  \E u \in Users, pid \in ProductIDs, req \in ProductUpdateRequest :
    \E route \in { "super-admin", "seller" } :
      Respond("UpdateProduct",
              AdminHandler_UpdateProduct(DB, userRoles, route, u, pid, req))

\* the carts placed while the catalog is edited
CatalogCarts == { << Line(1, 1), Line(2, 1) >>, << Line(1, 2), Line(1, 1) >> }

NextCatalog ==
  \/ ReqCreateOrder({1, 2}, CatalogCarts)
  \/ ReqPayOrder
  \/ ReqAdminConfirmOrder
  \/ ReqCancelOrder
  \/ ReqUpdateProduct

SpecCatalog == Init /\ [][NextCatalog]_vars

-----------------------------------------------------------------------------
(* Orders confirmed while the stock is edited through the catalog *)

\* the quantities UpdateStock is called with: a unit taken, a unit added
StockQuantities == { -1, 1 }

\* a call of ProductService.UpdateStock; the stock stays within MaxStock
ReqUpdateStock ==
  \E pid \in ProductIDs, quantity \in StockQuantities :
    LET r == ProductService_UpdateStock(DB, pid, quantity) IN
    /\ \A p \in DOMAIN r.db.products : r.db.products[p].stock <= MaxStock
    /\ Respond("UpdateStock", r)

\* the carts placed while the stock is edited
InventoryCarts == { << Line(1, 1) >>, << Line(1, 1), Line(2, 1) >> }

NextInventory ==
  \/ ReqCreateOrder({1, 2}, InventoryCarts)
  \/ ReqPayOrder
  \/ ReqAdminConfirmOrder
  \/ ReqCancelOrder
  \/ ReqUpdateStock

SpecInventory == Init /\ [][NextInventory]_vars

-----------------------------------------------------------------------------
(* UpdateProduct served while other requests are served.  The call reads   *)
(* the product row with First, sets the fields of the request on its copy  *)
(* and writes every column of the copy with Save; another request can      *)
(* commit between the read and the write.                                   *)

IdleUpdate ==
  [pc |-> "idle", pid |-> 0, product |-> ZeroProduct,
   req |-> [price |-> {}, stock |-> {}]]

\* the gate of the route and database.DB.First(&product, productID)
UpdateProductLoad(p, u, route, pid, req) ==
  /\ procs[p].pc = "idle"
  /\ LET denied == AdminHandler_UpdateProduct(DB, userRoles, route, u, pid,
                                              req).err = AccessDenied
     IN
     IF denied \/ pid \notin DOMAIN products
     THEN /\ last' = [op |-> "UpdateProduct",
                      err |-> IF denied THEN AccessDenied
                              ELSE "product not found"]
          /\ UNCHANGED procs
     ELSE /\ procs' = [procs EXCEPT
                         ![p] = [pc |-> "loaded", pid |-> pid,
                                 product |-> products[pid], req |-> req]]
          /\ UNCHANGED last
  /\ UNCHANGED <<products, orders, orderItems, users, userRoles, now>>

\* product.Price = *req.Price; product.Stock = *req.Stock;
\* database.DB.Save(&product): every column of the copy is written
UpdateProductSave(p) ==
  /\ procs[p].pc = "loaded"
  /\ products' =
       [products EXCEPT
          ![procs[p].pid] =
            [procs[p].product EXCEPT
               !.price = FieldOr(procs[p].req.price, @),
               !.stock = FieldOr(procs[p].req.stock, @)]]
  /\ last' = [op |-> "UpdateProduct", err |-> ""]
  /\ procs' = [procs EXCEPT ![p] = IdleUpdate]
  /\ UNCHANGED <<orders, orderItems, users, userRoles, now>>

\* one UpdateProduct is in flight at a time, next to the order requests
Updaters == { 1 }

InitCatalogConc ==
  /\ products = EmptyDB.products
  /\ orders = EmptyDB.orders
  /\ orderItems = EmptyDB.orderItems
  /\ users = Users
  /\ userRoles = InitUserRoles
  /\ now = 0
  /\ last = [op |-> "none", err |-> ""]
  /\ procs = [p \in Procs |-> IdleUpdate]

NextCatalogConc ==
  \/ ReqCreateOrder({1, 2}, { << Line(1, 1) >> })
  \/ ReqPayOrder
  \/ ReqAdminConfirmOrder
  \/ \E p \in Updaters, u \in Users, route \in { "super-admin", "seller" },
        pid \in ProductIDs, req \in ProductUpdateRequest :
       UpdateProductLoad(p, u, route, pid, req)
  \/ \E p \in Updaters : UpdateProductSave(p)

SpecCatalogConc == InitCatalogConc /\ [][NextCatalogConc]_vars

-----------------------------------------------------------------------------
(* AssignRole calls served concurrently.  Each call runs its checks, then  *)
(* its transaction statement by statement: the delete of the target's      *)
(* rows, the insert of the new row, the commit.  A statement sees the rows *)
(* committed when it runs (read committed, the default of the database);   *)
(* a row marked by the delete of a transaction in flight is locked, and a  *)
(* second delete of it waits for that transaction to end.  The new row is  *)
(* seen by the others from the commit on; rows take their place in the     *)
(* table at the commit.                                                    *)

IdleTx == [pc |-> "idle", userID |-> 0, roleName |-> "", del |-> {}]

\* the rows locked by the deletes of the transactions in flight
LockedRows(p) == UNION { procs[q].del : q \in Procs \ {p} }

\* the call passes the gate and the checks of AssignRole and begins its
\* transaction
AssignBegin(p, actor, target, roleName) ==
  /\ procs[p].pc = "idle"
  /\ SuperAdminMiddleware(userRoles, actor)
  /\ GetUserRole(userRoles, actor) = ROLE_SUPER_ADMIN
  /\ roleName \in RoleTable
  /\ target \in users
  /\ Len(userRoles) + Cardinality({ q \in Procs : procs[q].pc # "idle" })
       < MaxRoleRows
  /\ procs' = [procs EXCEPT
                 ![p] = [pc |-> "begun", userID |-> target,
                         roleName |-> roleName, del |-> {}]]
  /\ UNCHANGED <<products, orders, orderItems, users, userRoles, now, last>>

\* tx.Where("user_id = ?", userID).Delete(&models.UserRole{})
AssignDelete(p) ==
  /\ procs[p].pc = "begun"
  /\ ActiveRows(userRoles, procs[p].userID) \cap LockedRows(p) = {}
  /\ procs' = [procs EXCEPT
                 ![p].pc = "deleted",
                 ![p].del = ActiveRows(userRoles, procs[p].userID)]
  /\ UNCHANGED <<products, orders, orderItems, users, userRoles, now, last>>

\* tx.Create(&userRole)
AssignCreate(p) ==
  /\ procs[p].pc = "deleted"
  /\ procs' = [procs EXCEPT ![p].pc = "created"]
  /\ UNCHANGED <<products, orders, orderItems, users, userRoles, now, last>>

\* tx.Commit(): the rows the delete marked are deleted, the new row is there
AssignCommit(p) ==
  /\ procs[p].pc = "created"
  /\ userRoles' =
       Append([i \in DOMAIN userRoles |->
                 IF i \in procs[p].del
                 THEN [userRoles[i] EXCEPT !.deleted = TRUE]
                 ELSE userRoles[i]],
              UserRoleRow(procs[p].userID, procs[p].roleName))
  /\ last' = [op |-> "AssignRole", err |-> ""]
  /\ procs' = [procs EXCEPT ![p] = IdleTx]
  /\ UNCHANGED <<products, orders, orderItems, users, now>>

\* a statement of the transaction fails: tx.Rollback()
AssignRollback(p) ==
  /\ procs[p].pc \in { "begun", "deleted", "created" }
  /\ last' = [op |-> "AssignRole",
              err |-> CASE procs[p].pc = "begun" ->
                             "failed to remove existing role"
                        [] procs[p].pc = "deleted" -> "failed to assign role"
                        [] OTHER -> "failed to commit role assignment"]
  /\ procs' = [procs EXCEPT ![p] = IdleTx]
  /\ UNCHANGED <<products, orders, orderItems, users, userRoles, now>>

InitRolesConc ==
  /\ products = EmptyDB.products
  /\ orders = EmptyDB.orders
  /\ orderItems = EmptyDB.orderItems
  /\ users = Users
  /\ userRoles = InitUserRoles
  /\ now = 0
  /\ last = [op |-> "none", err |-> ""]
  /\ procs = [p \in Procs |-> IdleTx]

NextRolesConc ==
  \/ \E p \in Procs, actor \in Users, target \in UserIDs,
        roleName \in RoleNames : AssignBegin(p, actor, target, roleName)
  \/ \E p \in Procs : AssignDelete(p)
  \/ \E p \in Procs : AssignCreate(p)
  \/ \E p \in Procs : AssignCommit(p)
  \/ \E p \in Procs : AssignRollback(p)

SpecRolesConc == InitRolesConc /\ [][NextRolesConc]_vars

-----------------------------------------------------------------------------
(* The two transactions statement by statement.  CreateOrder and            *)
(* ConfirmOrder issue every write through the handle tx of their own        *)
(* transaction; the database keeps the writes of a transaction in flight   *)
(* to itself and applies them to the rows the other requests read at       *)
(* tx.Commit().  The relative updates of stock and order_count lock the    *)
(* product row until the transaction ends.  Rows inserted take their place *)
(* in the table at the commit.                                             *)

\* a write of a transaction: an update of products.stock or
\* products.order_count by n, the save of an order row, the insert of an
\* order row, the insert of the line items of the order just inserted
Write(kind, id, n, row, items) ==
  [kind |-> kind, id |-> id, n |-> n, row |-> row, items |-> items]

IdleTxn ==
  [pc |-> "idle", op |-> "none", oid |-> 0, order |-> NoOrder,
   items |-> <<>>, k |-> 0, writes |-> <<>>]

\* what one write does to the rows
ApplyWrite(db, w) ==
  CASE w.kind = "stock" -> UpdateStock(db, w.id, w.n)
    [] w.kind = "count" -> UpdateOrderCount(db, w.id)
    [] w.kind = "order" -> SaveOrder(db, w.id, w.row)
    [] w.kind = "new_order" -> [db EXCEPT !.orders = Append(@, w.row)]
    [] w.kind = "new_items" ->
         [db EXCEPT !.orderItems = @ \o WithOrderID(w.items, Len(db.orders))]

RECURSIVE ApplyWrites(_, _)
ApplyWrites(db, writes) ==
  IF writes = <<>> THEN db
  ELSE ApplyWrites(ApplyWrite(db, Head(writes)), Tail(writes))

\* Variant of TxExec: the statement is run on database.DB, not on tx
TxExecOnDB(db, writes, w) ==
  [db |-> ApplyWrite(db, w), writes |-> writes]

\* a statement run on the handle tx: the rows the others read are left
\* alone and the write is the transaction's own until the commit
TxExec(db, writes, w) ==
  [db |-> db, writes |-> Append(writes, w)]

\* the product rows locked by the updates of the other transactions
LockedProducts(p) ==
  UNION { { procs[q].writes[i].id :
              i \in { j \in DOMAIN procs[q].writes :
                        procs[q].writes[j].kind \in { "stock", "count" } } } :
          q \in Procs \ {p} }

\* a statement of the transaction of request p, run through TxExec
TxStep(p, w, pc, k) ==
  LET r == TxExec(DB, procs[p].writes, w) IN
  /\ products' = r.db.products
  /\ orders' = r.db.orders
  /\ orderItems' = r.db.orderItems
  /\ procs' = [procs EXCEPT ![p].writes = r.writes, ![p].pc = pc, ![p].k = k]
  /\ UNCHANGED <<users, userRoles, now, last>>

\* CreateOrder up to the end of its loop: every line names a product with
\* enough stock
CreateBegin(p, u, req) ==
  /\ procs[p].pc = "idle"
  /\ Len(orders) + Cardinality({ q \in Procs : procs[q].op = "CreateOrder" })
       < MaxOrders
  /\ LET lines == CreateOrderLines(Begin(DB), req, 1, NoFault) IN
     /\ lines.err = ""
     /\ procs' = [procs EXCEPT
                    ![p] = [IdleTxn EXCEPT
                              !.pc = "insert_order", !.op = "CreateOrder",
                              !.order = [user_id |-> u,
                                         order_number |-> OrderNumber(now, u),
                                         status |-> OrderStatusPending,
                                         total_amount |-> lines.total],
                              !.items = lines.items]]
  /\ UNCHANGED <<products, orders, orderItems, users, userRoles, now, last>>

\* tx.Create(&order): the unique index on order_number refuses a number
\* that is taken and makes the insert wait for a transaction in flight
\* that has inserted the same number
CreateInsertOrder(p) ==
  /\ procs[p].pc = "insert_order"
  /\ ~OrderNumberTaken(DB, procs[p].order.order_number)
  /\ \A q \in Procs \ {p} :
       procs[q].writes # <<>> /\ procs[q].op = "CreateOrder"
         => procs[q].order.order_number # procs[p].order.order_number
  /\ TxStep(p, Write("new_order", 0, 0, procs[p].order, <<>>),
            "insert_items", 0)

\* tx.Create(&orderItems)
CreateInsertItems(p) ==
  /\ procs[p].pc = "insert_items"
  /\ TxStep(p, Write("new_items", 0, 0, NoOrder, procs[p].items), "commit", 0)

\* ConfirmOrder up to its status check: the order is read with its items
ConfirmBegin(p, u, oid) ==
  /\ procs[p].pc = "idle"
  /\ SuperAdminMiddleware(userRoles, u)
  /\ OrderExists(DB, oid)
  /\ ConfirmOrderCheck(orders[oid]) = ""
  /\ procs' = [procs EXCEPT
                 ![p] = [IdleTxn EXCEPT
                           !.pc = "stock", !.op = "ConfirmOrder", !.oid = oid,
                           !.order = orders[oid], !.items = ItemsOf(DB, oid),
                           !.k = 1]]
  /\ UNCHANGED <<products, orders, orderItems, users, userRoles, now, last>>

\* Update("stock", gorm.Expr("stock - ?", item.Quantity)) of item k
ConfirmStock(p) ==
  /\ procs[p].pc = "stock"
  /\ procs[p].items[procs[p].k].product_id \notin LockedProducts(p)
  /\ TxStep(p, Write("stock", procs[p].items[procs[p].k].product_id,
                     procs[p].items[procs[p].k].quantity, NoOrder, <<>>),
            "count", procs[p].k)

\* Update("order_count", gorm.Expr("order_count + 1")) of item k
ConfirmCount(p) ==
  /\ procs[p].pc = "count"
  /\ TxStep(p, Write("count", procs[p].items[procs[p].k].product_id, 1,
                     NoOrder, <<>>),
            IF procs[p].k < Len(procs[p].items) THEN "stock" ELSE "save",
            procs[p].k + 1)

\* order.Status = models.OrderStatusConfirmed; tx.Save(&order)
ConfirmSave(p) ==
  /\ procs[p].pc = "save"
  /\ TxStep(p, Write("order", procs[p].oid, 0,
                     [procs[p].order EXCEPT !.status = OrderStatusConfirmed],
                     <<>>),
            "commit", procs[p].k)

\* tx.Commit(): the writes of the transaction reach the rows all at once
TxCommit(p) ==
  /\ procs[p].pc = "commit"
  /\ LET db == Commit(DB, ApplyWrites(DB, procs[p].writes)) IN
     /\ products' = db.products
     /\ orders' = db.orders
     /\ orderItems' = db.orderItems
  /\ last' = [op |-> procs[p].op, err |-> ""]
  /\ procs' = [procs EXCEPT ![p] = IdleTxn]
  /\ UNCHANGED <<users, userRoles, now>>

\* a statement or the commit fails: tx.Rollback(), the writes are dropped
TxRollback(p) ==
  /\ procs[p].pc # "idle"
  /\ LET db == Rollback(DB, ApplyWrites(DB, procs[p].writes)) IN
     /\ products' = db.products
     /\ orders' = db.orders
     /\ orderItems' = db.orderItems
  /\ last' = [op |-> procs[p].op, err |-> "rolled back"]
  /\ procs' = [procs EXCEPT ![p] = IdleTxn]
  /\ UNCHANGED <<users, userRoles, now>>

\* PayOrder, one statement on the rows as they are
TxPayOrder ==
  \E u \in Users, oid \in OrderIDs :
    LET r == OrderHandler_PayOrder(DB, u, oid) IN
    /\ r.err = ""
    /\ Respond("PayOrder", r)

InitTx ==
  /\ products = EmptyDB.products
  /\ orders = EmptyDB.orders
  /\ orderItems = EmptyDB.orderItems
  /\ users = Users
  /\ userRoles = InitUserRoles
  /\ now = 0
  /\ last = [op |-> "none", err |-> ""]
  /\ procs = [p \in Procs |-> IdleTxn]

NextTx ==
  \/ \E p \in Procs, u \in {1, 2}, req \in CatalogCarts : CreateBegin(p, u, req)
  \/ \E p \in Procs : CreateInsertOrder(p)
  \/ \E p \in Procs : CreateInsertItems(p)
  \/ \E p \in Procs, u \in Users, oid \in OrderIDs : ConfirmBegin(p, u, oid)
  \/ \E p \in Procs : ConfirmStock(p)
  \/ \E p \in Procs : ConfirmCount(p)
  \/ \E p \in Procs : ConfirmSave(p)
  \/ \E p \in Procs : TxCommit(p)
  \/ \E p \in Procs : TxRollback(p)
  \/ TxPayOrder

SpecTx == InitTx /\ [][NextTx]_vars

-----------------------------------------------------------------------------
(* Properties of the order lifecycle *)

Terminal == { OrderStatusDelivered, OrderStatusCancelled }

CancelOps == { "CancelOrder", "AdminCancelOrder", "UpdateOrderStatus" }

\* the edges of the lifecycle, each with the operations that take it
Edges ==
  { <<OrderStatusPending, OrderStatusPaid, "PayOrder">>,
    <<OrderStatusPaid, OrderStatusConfirmed, "ConfirmOrder">>,
    <<OrderStatusConfirmed, OrderStatusShipped, "ShipOrder">>,
    <<OrderStatusShipped, OrderStatusDelivered, "DeliverOrder">> }
  \cup { <<s, OrderStatusCancelled, op>> :
           s \in OrderStatus \ Terminal, op \in CancelOps }

\* C1: with requests served one at a time, every change of the status of a
\* persisted order goes along an edge of the lifecycle and is made by the
\* operation of that edge; no other change of status occurs.
C1_StatusChangesAlongEdges ==
  [][\A oid \in DOMAIN orders :
       orders'[oid].status # orders[oid].status =>
         <<orders[oid].status, orders'[oid].status, last'.op>> \in Edges]_vars

\* an order was brought to delivered, the last edge of the chain, while
\* another one was cancelled
C1_Witness ==
  /\ last = [op |-> "DeliverOrder", err |-> ""]
  /\ \E oid \in DOMAIN orders : orders[oid].status = OrderStatusDelivered
  /\ \E oid \in DOMAIN orders : orders[oid].status = OrderStatusCancelled

\* C2: also when the reads and writes of several requests on one order
\* interleave, an order that is delivered or cancelled never changes its
\* status again.
C2_TerminalStatusIsFinal ==
  [][\A oid \in DOMAIN orders :
       orders[oid].status \in Terminal =>
         orders'[oid].status = orders[oid].status]_vars

\* C3: the stock of every product is never negative, and a ConfirmOrder
\* whose decrement would make a stock negative is rejected and applies
\* nothing.
C3_StockNeverNegative ==
  /\ \A p \in DOMAIN products : products[p].stock >= 0
  /\ \A oid \in DOMAIN orders :
       LET items == ItemsOf(DB, oid) IN
       ( /\ orders[oid].status = OrderStatusPaid
         /\ \E i \in DOMAIN items :
              products[items[i].product_id].stock < items[i].quantity )
       => LET r == ConfirmOrder(DB, oid, NoFault) IN
          r.err # "" /\ r.db = DB

\* the lines of the order that name the product
LinesOf(items, productID) ==
  { i \in DOMAIN items : items[i].product_id = productID }

RECURSIVE QuantityOf(_, _)
\* the sum of the quantities of the lines of the order that name the product
QuantityOf(items, productID) ==
  IF items = <<>> THEN 0
  ELSE (IF Head(items).product_id = productID THEN Head(items).quantity ELSE 0)
       + QuantityOf(Tail(items), productID)

\* ConfirmOrder succeeds and leaves the order confirmed, the other orders
\* and all line items as they were
ConfirmedAlone(r, oid) ==
  /\ r.err = ""
  /\ r.db.orders = [orders EXCEPT ![oid].status = OrderStatusConfirmed]
  /\ r.db.orderItems = orderItems
  /\ DOMAIN r.db.products = DOMAIN products

C5_ConfirmAllOrNothing ==
  \A oid \in OrderIDs :
    \A fault \in ConfirmOrderFaults(DB, oid) :
      LET r == ConfirmOrder(DB, oid, fault) IN
      r.err # "" => r.db = DB

\* a confirmation failed at an order_count update, after the stock update
\* of the same line
C5_Witness ==
  /\ last = [op |-> "ConfirmOrder",
             err |-> "failed to update product order count"]
  /\ \E oid \in DOMAIN orders : orders[oid].status = OrderStatusPaid

-----------------------------------------------------------------------------
(* Properties of CreateOrder *)

\* the line names a product that exists
Existing(db, line) == line.product_id \in DOMAIN db.products

\* the line asks for more than the stock of the product it names
Understocked(db, line) ==
  Existing(db, line) /\ db.products[line.product_id].stock < line.quantity

\* every line names an existing product with enough stock
InStock(db, req) ==
  \A k \in DOMAIN req : Existing(db, req[k]) /\ ~Understocked(db, req[k])

\* the line items a request asks for, at the prices of the catalog
ExpectedItems(db, req, orderID) ==
  [k \in 1 .. Len(req) |->
     [order_id |-> orderID, product_id |-> req[k].product_id,
      quantity |-> req[k].quantity,
      price_at_moment |-> db.products[req[k].product_id].price]]

\* C6: for every non-empty request whose lines all name existing products
\* with enough stock, CreateOrder succeeds and persists exactly one new
\* order of the caller, pending, with one line item per requested line
\* (product, quantity, current price) and the sum of price x quantity as
\* total_amount.
C6_CreateOrderSucceeds ==
  \A u \in Users, req \in OrderCreateRequest :
    InStock(DB, req) =>
      LET r == CreateOrder(DB, u, req, now, NoFault)
          oid == Len(orders) + 1
          items == ExpectedItems(DB, req, oid)
      IN
      /\ r.err = ""
      /\ r.db.products = products
      /\ Len(r.db.orders) = oid
      /\ SubSeq(r.db.orders, 1, Len(orders)) = orders
      /\ r.db.orders[oid].user_id = u
      /\ r.db.orders[oid].status = OrderStatusPending
      /\ r.db.orders[oid].total_amount =
           SumSeq([k \in 1 .. Len(items) |->
                     items[k].price_at_moment * items[k].quantity])
      /\ r.db.orderItems = orderItems \o items

\* C7 as stated: if any line asks for more than the stock of its product,
\* CreateOrder fails with the insufficient-stock error and the orders and
\* line items are what they were, wherever the line stands.
C7_UnderstockedFailsWithStockError ==
  \A u \in Users, req \in OrderCreateRequest :
    (\E k \in DOMAIN req : Understocked(DB, req[k])) =>
      LET r == CreateOrder(DB, u, req, now, NoFault) IN
      /\ r.err = "insufficient stock"
      /\ r.db.orders = orders
      /\ r.db.orderItems = orderItems

\* C7 (amended): if any line asks for more than the stock of its product,
\* CreateOrder fails and the orders, line items and products are what they
\* were, wherever the line stands and whatever else fails; the error is the
\* insufficient-stock error when no line before the understocked one names
\* a missing product and the store does not fail.
C7_UnderstockedFails ==
  \A u \in Users, req \in OrderCreateRequest :
    (\E k \in DOMAIN req : Understocked(DB, req[k])) =>
      /\ \A fault \in CreateOrderFaults(req) :
           LET r == CreateOrder(DB, u, req, now, fault) IN
           r.err # "" /\ r.db = DB
      /\ (\E k \in DOMAIN req :
            /\ Understocked(DB, req[k])
            /\ \A j \in 1 .. k - 1 : Existing(DB, req[j]))
         => CreateOrder(DB, u, req, now, NoFault).err = "insufficient stock"

\* a checkout was refused for lack of stock after an order had been placed
C7_Witness ==
  /\ last = [op |-> "CreateOrder", err |-> "insufficient stock"]
  /\ Len(orders) >= 1

\* C8 as stated: if any line names a product that does not exist,
\* CreateOrder fails with the not-found error and persists no order and no
\* line item, wherever the line stands.
C8_MissingFailsWithNotFound ==
  \A u \in Users, req \in OrderCreateRequest :
    (\E k \in DOMAIN req : ~Existing(DB, req[k])) =>
      LET r == CreateOrder(DB, u, req, now, NoFault) IN
      /\ r.err = "product not found"
      /\ r.db.orders = orders
      /\ r.db.orderItems = orderItems

\* C8 (amended): if any line names a product that does not exist,
\* CreateOrder fails and persists no order and no line item, wherever the
\* line stands and whatever else fails; the error is the not-found error
\* when no line before the missing one is understocked and the store does
\* not fail.
C8_MissingFails ==
  \A u \in Users, req \in OrderCreateRequest :
    (\E k \in DOMAIN req : ~Existing(DB, req[k])) =>
      /\ \A fault \in CreateOrderFaults(req) :
           LET r == CreateOrder(DB, u, req, now, fault) IN
           r.err # "" /\ r.db = DB
      /\ (\E k \in DOMAIN req :
            /\ ~Existing(DB, req[k])
            /\ \A j \in 1 .. k - 1 : ~Understocked(DB, req[j]))
         => CreateOrder(DB, u, req, now, NoFault).err = "product not found"

\* a checkout naming a missing product was refused after an order had been
\* placed
C8_Witness ==
  /\ last = [op |-> "CreateOrder", err |-> "product not found"]
  /\ Len(orders) >= 1

-----------------------------------------------------------------------------
(* Properties of cancellation *)

\* C9: CancelOrder on an existing order fails and leaves the status as it
\* is when the order is delivered or cancelled, and succeeds and sets the
\* status to cancelled when it is pending, paid, confirmed or shipped.
C9_CancelOrder ==
  \A oid \in DOMAIN orders :
    LET r == CancelOrder(DB, oid) IN
    IF orders[oid].status \in Terminal
    THEN r.err # "" /\ r.db = DB
    ELSE /\ r.err = ""
         /\ r.db = [DB EXCEPT !.orders[oid].status = OrderStatusCancelled]

\* the cancellation of a delivered order was refused
C9_Witness ==
  /\ last = [op |-> "CancelOrder", err |-> "order cannot be cancelled"]
  /\ \E oid \in DOMAIN orders : orders[oid].status = OrderStatusDelivered

\* C10: a cancel request of a regular user for an order of another user
\* never changes the status of that order, neither on
\* POST /orders/:id/cancel nor on PUT /orders/:id.
C10_OnlyOwnerOrAdminCancels ==
  \A u \in Users, oid \in DOMAIN orders :
    (GetUserRole(userRoles, u) = ROLE_USER /\ orders[oid].user_id # u) =>
      /\ OrderHandler_CancelOrder(DB, u, oid).db.orders[oid].status
           = orders[oid].status
      /\ OrderHandler_UpdateOrderStatus(DB, u, oid, OrderStatusCancelled)
           .db.orders[oid].status = orders[oid].status

-----------------------------------------------------------------------------
(* Properties of payment and of the role gate *)

\* C11: PayOrder changes something only when the order exists, is owned by
\* the caller and is pending, and then it makes it paid and nothing else; a
\* call by a non-owner, or on an order in another status, or on no order,
\* fails and leaves the database as it was.
C11_PayOrder ==
  \A oid \in OrderIDs, u \in Users :
    LET r == PayOrder(DB, oid, u) IN
    IF /\ oid \in DOMAIN orders
       /\ orders[oid].user_id = u
       /\ orders[oid].status = OrderStatusPending
    THEN /\ r.err = ""
         /\ r.db = [DB EXCEPT !.orders[oid].status = OrderStatusPaid]
    ELSE r.err # "" /\ r.db = DB

\* every order id names an order, and a payment was refused because the
\* caller does not own the order, while an order of somebody is still pending
C11_Witness ==
  /\ Len(orders) = MaxOrders
  /\ last = [op |-> "PayOrder", err |-> "order not found"]
  /\ \E oid \in DOMAIN orders : orders[oid].status = OrderStatusPending

\* the user holds the role now: a row of user_roles that is not deleted
HoldsRole(u, roleName) ==
  \E i \in DOMAIN userRoles :
    /\ ~userRoles[i].deleted
    /\ userRoles[i].user_id = u
    /\ userRoles[i].role = roleName

-----------------------------------------------------------------------------
(* Properties of the order totals *)

\* C13: for every persisted order, total_amount is the sum over its line
\* items of quantity x price_at_moment, whatever transitions the order went
\* through and whatever prices UpdateProduct set afterwards.
C13_TotalIsSumOfLines ==
  \A oid \in DOMAIN orders :
    LET items == ItemsOf(DB, oid) IN
    orders[oid].total_amount =
      SumSeq([k \in 1 .. Len(items) |->
                items[k].quantity * items[k].price_at_moment])

\* the price of a product was changed after an order with a line of it was
\* placed and confirmed
C13_Witness ==
  /\ last = [op |-> "UpdateProduct", err |-> ""]
  /\ \E i \in DOMAIN orderItems :
       /\ orderItems[i].price_at_moment
            # products[orderItems[i].product_id].price
       /\ orders[orderItems[i].order_id].status = OrderStatusConfirmed

-----------------------------------------------------------------------------
(* Properties of the roles *)

\* C14: every user has at most one role assignment row that is not
\* deleted, also when the statements of two AssignRole calls for the same
\* user interleave.
C14_AtMostOneRolePerUser ==
  \A u \in users : Cardinality(ActiveRows(userRoles, u)) <= 1

\* the roles assigned to the user: those of its rows that are not deleted
AssignedRoles(roles, u) == { roles[i].role : i \in ActiveRows(roles, u) }

\* C15: AssignRole fails whenever the resolved role of the actor is not
\* super_admin; when it is, the role name is known and the target exists,
\* the call succeeds, the target resolves to the new role afterwards, the new
\* role is the only one assigned to the target and the assignments of the
\* other users are what they were.
C15_AssignRole ==
  \A actor \in UserIDs, target \in UserIDs, roleName \in RoleNames :
    LET r == AssignRole(RDB, target, roleName, actor, NoFault) IN
    /\ GetUserRole(userRoles, actor) # ROLE_SUPER_ADMIN =>
         \A fault \in RoleFaults :
           AssignRole(RDB, target, roleName, actor, fault).err # ""
    /\ ( /\ GetUserRole(userRoles, actor) = ROLE_SUPER_ADMIN
         /\ roleName \in RoleTable
         /\ target \in users )
       => /\ r.err = ""
          /\ r.db.users = users
          /\ GetUserRole(r.db.userRoles, target) = roleName
          /\ AssignedRoles(r.db.userRoles, target) = { roleName }
          /\ Cardinality(ActiveRows(r.db.userRoles, target)) = 1
          /\ \A u \in users \ { target } :
               AssignedRoles(r.db.userRoles, u) = AssignedRoles(userRoles, u)

\* the seller of the start was given another role: its seller row is
\* deleted and it resolves to the new role
C15_Witness ==
  /\ last = [op |-> "AssignRole", err |-> ""]
  /\ \E i \in DOMAIN userRoles :
       /\ userRoles[i] = [UserRoleRow(2, ROLE_SELLER) EXCEPT !.deleted = TRUE]
  /\ GetUserRole(userRoles, 2) = ROLE_SUPER_ADMIN

C17_RemoveRole ==
  \A actor \in UserIDs, target \in UserIDs :
    LET r == RemoveRole(RDB, target, actor, NoFault) IN
    IF /\ GetUserRole(userRoles, actor) = ROLE_SUPER_ADMIN
       /\ target # actor
       /\ target \in users
       /\ ActiveRows(userRoles, target) # {}
    THEN /\ r.err = ""
         /\ r.db.users = users
         /\ ActiveRows(r.db.userRoles, target) = {}
         /\ GetUserRole(r.db.userRoles, target) = ROLE_USER
         /\ \A u \in users \ { target } :
              AssignedRoles(r.db.userRoles, u) = AssignedRoles(userRoles, u)
    ELSE r.err # "" /\ r.db = RDB

\* a removal was refused because the target, a registered user, has no
\* role to remove
C17_Witness ==
  /\ last = [op |-> "RemoveRole", err |-> "user has no role to remove"]
  /\ \E i \in DOMAIN userRoles : userRoles[i].deleted

\* C18: RemoveRole(u, u) fails for every user u, whatever role u holds
\* (super_admin, seller, user or none) and whatever the store does, and the
\* user_roles table is what it was.
C18_RemoveOwnRole ==
  \A u \in UserIDs :
    \A fault \in RoleFaults :
      LET r == RemoveRole(RDB, u, u, fault) IN
      r.err # "" /\ r.db = RDB

\* a super admin other than the first one was refused the removal of its
\* own role
C18_Witness ==
  /\ last = [op |-> "RemoveRole", err |-> "cannot remove your own role"]
  /\ \E u \in users \ {3} : GetUserRole(userRoles, u) = ROLE_SUPER_ADMIN

\* C19: AssignRole fails when the role name is not a role of the roles
\* table, when the target is not a registered user, or when the actor does
\* not resolve to super_admin, and then the users and the user_roles table
\* are exactly what they were.
C19_AssignRoleRejects ==
  \A actor \in UserIDs, target \in UserIDs, roleName \in RoleNames :
    ( \/ roleName \notin RoleTable
      \/ target \notin users
      \/ GetUserRole(userRoles, actor) # ROLE_SUPER_ADMIN )
    => \A fault \in RoleFaults :
         LET r == AssignRole(RDB, target, roleName, actor, fault) IN
         r.err # "" /\ r.db = RDB

\* an assignment to a user id that is not registered was refused while
\* other users hold assignments
C19_Witness ==
  /\ last = [op |-> "AssignRole", err |-> "user not found"]
  /\ \E u \in users : ActiveRows(userRoles, u) # {}
  /\ Cardinality(users) < MaxUsers

-----------------------------------------------------------------------------
(* Properties of the writes of a transaction in flight *)

\* request p takes a step of its transaction
TxMoves(p) == procs[p].pc # "idle" /\ procs'[p] # procs[p]

\* request p commits
TxCommits(p) ==
  /\ procs[p].pc = "commit"
  /\ procs'[p].pc = "idle"
  /\ last' = [op |-> procs[p].op, err |-> ""]

\* the rows after the commit of a ConfirmOrder: every line's stock and
\* order_count update and the status confirmed, together
ConfirmVisibleWhole(p) ==
  /\ orders'[procs[p].oid].status = OrderStatusConfirmed
  /\ \A pid \in DOMAIN products :
       /\ products'[pid].stock =
            products[pid].stock - QuantityOf(procs[p].items, pid)
       /\ products'[pid].order_count =
            products[pid].order_count
              + Cardinality(LinesOf(procs[p].items, pid))
  /\ orderItems' = orderItems

\* the rows after the commit of a CreateOrder: the order and all its items
CreateVisibleWhole(p) ==
  /\ Len(orders') = Len(orders) + 1
  /\ orders'[Len(orders')] = procs[p].order
  /\ Len(ItemsOf(DB', Len(orders'))) = Len(procs[p].items)
  /\ Len(orderItems') = Len(orderItems) + Len(procs[p].items)
  /\ products' = products

\* C20: the writes of CreateOrder and of ConfirmOrder reach the rows the
\* other requests read only at the commit and all together: every order
\* that can be read has its line items; a statement of a transaction in
\* flight changes nothing that can be read, so that no reader sees the
\* stock or order_count updates of some lines of a ConfirmOrder without the
\* others, nor stock decremented while the status read is still paid; the
\* commit shows the whole of the operation in one step.
C20_VisibleOnlyAtCommit ==
  /\ [](\A oid \in DOMAIN orders :
          LET items == ItemsOf(DB, oid) IN
          /\ items # <<>>
          /\ orders[oid].total_amount =
               SumSeq([k \in 1 .. Len(items) |->
                         items[k].quantity * items[k].price_at_moment]))
  /\ [][\A p \in Procs :
          TxMoves(p) =>
            IF TxCommits(p)
            THEN IF procs[p].op = "ConfirmOrder"
                 THEN ConfirmVisibleWhole(p)
                 ELSE CreateVisibleWhole(p)
            ELSE DB' = DB]_vars

\* a ConfirmOrder has updated its first line and not yet its second while
\* the order can still be read as paid, and a CreateOrder has inserted its
\* order and not yet the items
C20_Witness ==
  \E p, q \in Procs :
    /\ procs[p].op = "ConfirmOrder"
    /\ procs[p].pc = "stock"
    /\ procs[p].k = 2
    /\ Len(procs[p].writes) = 2
    /\ orders[procs[p].oid].status = OrderStatusPaid
    /\ procs[q].op = "CreateOrder"
    /\ procs[q].pc = "insert_items"
    /\ Len(procs[q].writes) = 1

-----------------------------------------------------------------------------
(* Properties of the order numbers *)

\* C21: a CreateOrder call with valid, in-stock lines made after any earlier
\* calls (a retry by the same user and a second call of the same user within
\* the same clock second included) gets an order number that no earlier
\* order carries, succeeds and leaves the earlier orders with one more
\* order of a distinct number.
C21_OrderNumbersNeverCollide ==
  \A u \in Users, req \in OrderCreateRequest :
    InStock(DB, req) =>
      LET r == CreateOrder(DB, u, req, now, NoFault) IN
      /\ ~OrderNumberTaken(DB, OrderNumber(now, u))
      /\ r.err = ""
      /\ Len(r.db.orders) = Len(orders) + 1
      /\ \A i, j \in DOMAIN r.db.orders :
           i # j => r.db.orders[i].order_number # r.db.orders[j].order_number

-----------------------------------------------------------------------------
(* Properties of the ownership check *)

\* order ids that name no order
MissingOrderIDs == (0 .. MaxOrders + 1) \ DOMAIN orders

\* C22: for GetOrderByID, PayOrder and UpdateOrderStatus, what a requester
\* gets for the id of an order of another user is what the requester gets
\* for an id that names no order, "order not found", whatever the status
\* and the contents of that order, and nothing is written.
C22_ForeignOrderLooksMissing ==
  \A u \in Users, oid \in DOMAIN orders, missing \in MissingOrderIDs :
    orders[oid].user_id # u =>
      /\ GetOrderByID(DB, oid, u) = GetOrderByID(DB, missing, u)
      /\ GetOrderByID(DB, oid, u).err = "order not found"
      /\ GetOrderByID(DB, oid, u).data = <<>>
      /\ PayOrder(DB, oid, u) = PayOrder(DB, missing, u)
      /\ PayOrder(DB, oid, u) = Result(DB, "order not found")
      /\ \A st \in OrderStatus :
           /\ UpdateOrderStatus(DB, oid, u, st)
                = UpdateOrderStatus(DB, missing, u, st)
           /\ UpdateOrderStatus(DB, oid, u, st) = Result(DB, "order not found")

\* the orders of another user are one in a status in which its owner could
\* pay it and one in a status in which its owner could cancel it, and each
\* is returned to its owner by GetOrderByID
C22_Witness ==
  \E u \in Users, pend, conf \in DOMAIN orders :
    /\ GetOrderByID(DB, pend, orders[pend].user_id).err = ""
    /\ PayOrder(DB, pend, orders[pend].user_id).err = ""
    /\ UpdateOrderStatus(DB, conf, orders[conf].user_id,
                         OrderStatusCancelled).err = ""
    /\ orders[pend].user_id # u
    /\ orders[pend].status = OrderStatusPending
    /\ orders[conf].user_id # u
    /\ orders[conf].status = OrderStatusConfirmed

-----------------------------------------------------------------------------
(* Properties of UpdateOrderStatus *)

\* C23: UpdateOrderStatus(orderID, userID, status) changes an order only
\* when the order is owned by userID, the requested status is cancelled and
\* the current status is neither delivered nor cancelled, and then only the
\* status of that order, which becomes cancelled; in every other case, a
\* request for one of the five other status values included, it fails and
\* leaves everything unchanged.
C23_UpdateOrderStatus ==
  \A u \in Users, oid \in 0 .. MaxOrders + 1, st \in OrderStatus :
    LET r == UpdateOrderStatus(DB, oid, u, st) IN
    IF /\ oid \in DOMAIN orders
       /\ orders[oid].user_id = u
       /\ st = OrderStatusCancelled
       /\ orders[oid].status \notin { OrderStatusDelivered,
                                      OrderStatusCancelled }
    THEN /\ r.err = ""
         /\ r.db = [DB EXCEPT !.orders[oid].status = OrderStatusCancelled]
    ELSE /\ r.err # ""
         /\ r.db = DB

\* a user has cancelled an order through UpdateOrderStatus while another
\* order is in a status that a request for shipped would fit
C23_Witness ==
  /\ last = [op |-> "UpdateOrderStatus", err |-> ""]
  /\ \E a, b \in DOMAIN orders :
       /\ orders[a].status = OrderStatusCancelled
       /\ orders[b].status = OrderStatusConfirmed

-----------------------------------------------------------------------------
(* Properties of the rejected transitions *)

\* the call is refused and nothing is written
Refused(r) == r.err # "" /\ r.db = DB

\* C24: PayOrder, ConfirmOrder, ShipOrder, DeliverOrder, CancelOrder and
\* UpdateOrderStatus, attempted on an order whose current status the
\* transition does not start from, or on an id that names no order, return
\* an error, never success, and leave the status of every order and the
\* stock and order_count of every product unchanged.
C24_RejectedTransitionChangesNothing ==
  \A oid \in 0 .. MaxOrders + 1 :
    LET missing == oid \notin DOMAIN orders
        status == IF missing THEN "none" ELSE orders[oid].status
    IN
    /\ missing \/ status # OrderStatusPending =>
         \A u \in Users : Refused(PayOrder(DB, oid, u))
    /\ missing \/ status # OrderStatusPaid =>
         \A fault \in { NoFault } \cup
                      { [step |-> s, at |-> 0] : s \in { "save", "commit" } } :
           Refused(ConfirmOrder(DB, oid, fault))
    /\ missing \/ status # OrderStatusConfirmed => Refused(ShipOrder(DB, oid))
    /\ missing \/ status # OrderStatusShipped => Refused(DeliverOrder(DB, oid))
    /\ missing \/ status \in Terminal =>
         /\ Refused(CancelOrder(DB, oid))
         /\ \A u \in Users, st \in OrderStatus :
              Refused(UpdateOrderStatus(DB, oid, u, st))

\* a ConfirmOrder was refused for the status of its order after another
\* order had been confirmed and delivered, so that stock and order_count
\* had values a write would have changed
C24_Witness ==
  /\ last = [op |-> "ConfirmOrder",
             err |-> "order must be paid before confirmation"]
  /\ \E oid \in DOMAIN orders : orders[oid].status = OrderStatusDelivered
  /\ \E oid \in DOMAIN orders : orders[oid].status = OrderStatusPending
  /\ \E p \in DOMAIN products : products[p].order_count > 0

-----------------------------------------------------------------------------
(* Properties of stock and order_count *)

\* stock and order_count of every product
Inventory(db) ==
  [p \in DOMAIN db.products |->
     <<db.products[p].stock, db.products[p].order_count>>]

\* C25: CreateOrder, whether it succeeds or fails, and wherever it fails,
\* leaves the stock and the order_count of every product as they were.
C25_CreateOrderKeepsInventory ==
  \A u \in Users, req \in OrderCreateRequest :
    \A fault \in CreateOrderFaults(req) :
      Inventory(CreateOrder(DB, u, req, now, fault).db) = Inventory(DB)

\* after an order was confirmed and took stock, a CreateOrder for what is
\* left of a product of that order succeeds and a CreateOrder for more than
\* what is left is refused
C25_Witness ==
  \E a \in DOMAIN orders, u \in Users, req, big \in OrderCreateRequest :
    /\ orders[a].status = OrderStatusConfirmed
    /\ \E i \in DOMAIN orderItems :
         /\ orderItems[i].order_id = a
         /\ orderItems[i].product_id = req[1].product_id
    /\ CreateOrder(DB, u, req, now, NoFault).err = ""
    /\ Len(CreateOrder(DB, u, req, now, NoFault).db.orders) = Len(orders) + 1
    /\ CreateOrder(DB, u, big, now, NoFault).err = "insufficient stock"

\* C26: CancelOrder and UpdateOrderStatus leave the stock and the
\* order_count of every product as they were, also when the order cancelled
\* was confirmed or shipped and ConfirmOrder had taken its quantities from
\* the stock.
C26_CancelKeepsInventory ==
  \A oid \in 0 .. MaxOrders + 1 :
    /\ Inventory(CancelOrder(DB, oid).db) = Inventory(DB)
    /\ \A u \in Users, st \in OrderStatus :
         Inventory(UpdateOrderStatus(DB, oid, u, st).db) = Inventory(DB)

\* an order was cancelled after ConfirmOrder had taken its quantities: no
\* order is confirmed, shipped or delivered and the stock is still short
C26_Witness ==
  /\ last.op \in CancelOps
  /\ last.err = ""
  /\ \E oid \in DOMAIN orders : orders[oid].status = OrderStatusCancelled
  /\ \A oid \in DOMAIN orders :
       orders[oid].status \in { OrderStatusCancelled, OrderStatusPending,
                                OrderStatusPaid }
  /\ \E p \in DOMAIN products :
       /\ products[p].stock < InitProducts[p].stock
       /\ products[p].order_count > 0

\* order_count of every product
OrderCounts(db) == [p \in DOMAIN db.products |-> db.products[p].order_count]

\* stock of every product
Stocks(db) == [p \in DOMAIN db.products |-> db.products[p].stock]

C28_OrderCountNeverDecreases ==
  /\ [](\A p \in DOMAIN products : products[p].order_count >= 0)
  /\ [][\A p \in DOMAIN products :
          products'[p].order_count >= products[p].order_count]_vars

-----------------------------------------------------------------------------
(* Properties of the stock check of CreateOrder *)

\* two requests for the same product, each within its stock, together not
Oversell(db, pid, q1, q2) ==
  /\ pid \in DOMAIN db.products
  /\ q1 <= db.products[pid].stock
  /\ q2 <= db.products[pid].stock
  /\ q1 + q2 > db.products[pid].stock

\* C29: order creation does not reserve stock.  Two CreateOrder calls for
\* the same product, each for a quantity within the current stock and
\* together for more than it, both succeed when run one after the other
\* (their order numbers being free), leaving two pending orders and the
\* stock as it was; and a CreateOrder transaction that has passed its stock
\* check commits its pending order whatever other orders were created
\* meanwhile.
C29_CreationDoesNotReserveStock ==
  /\ \A u1, u2 \in Users, pid \in ProductIDs, q1, q2 \in 1 .. MaxQty :
       ( /\ u1 # u2
         /\ Oversell(DB, pid, q1, q2)
         /\ ~OrderNumberTaken(DB, OrderNumber(now, u1))
         /\ ~OrderNumberTaken(DB, OrderNumber(now, u2)) )
       => LET a == CreateOrder(DB, u1, << Line(pid, q1) >>, now, NoFault)
              b == CreateOrder(a.db, u2, << Line(pid, q2) >>, now, NoFault)
              n == Len(orders)
          IN
          /\ a.err = ""
          /\ b.err = ""
          /\ Len(b.db.orders) = n + 2
          /\ b.db.orders[n + 1].status = OrderStatusPending
          /\ b.db.orders[n + 2].status = OrderStatusPending
          /\ QuantityOf(ItemsOf(b.db, n + 1), pid)
               + QuantityOf(ItemsOf(b.db, n + 2), pid)
               > b.db.products[pid].stock
  /\ \A p \in Procs :
       procs[p].op = "CreateOrder" /\ procs[p].pc = "commit" =>
         LET db == ApplyWrites(DB, procs[p].writes) IN
         /\ Len(db.orders) = Len(orders) + 1
         /\ db.orders[Len(db.orders)].status = OrderStatusPending
         /\ ItemsOf(db, Len(db.orders))
              = WithOrderID(procs[p].items, Len(db.orders))
         /\ db.products = products

\* two CreateOrder transactions are in flight at once, both past the stock
\* check and about to commit, with lines of the same product that are each
\* within its stock and together beyond it
C29_Witness ==
  \E p, q \in Procs, pid \in DOMAIN products :
    /\ p # q
    /\ procs[p].op = "CreateOrder" /\ procs[p].pc = "commit"
    /\ procs[q].op = "CreateOrder" /\ procs[q].pc = "commit"
    /\ Oversell(DB, pid, QuantityOf(procs[p].items, pid),
                QuantityOf(procs[q].items, pid))
    /\ QuantityOf(procs[p].items, pid) > 0
    /\ QuantityOf(procs[q].items, pid) > 0

-----------------------------------------------------------------------------
(* Properties of the log of the role operations *)

\* C30: every AssignRole and every RemoveRole call, whether it succeeds or
\* fails, writes one entry to the log that names the acting user and the
\* target user and tells the outcome.
C30_EveryRoleCallIsLogged ==
  \A actor, target \in UserIDs, fault \in RoleFaults :
    /\ \A roleName \in RoleNames :
         LET log == AssignRoleLog(RDB, target, roleName, actor, fault) IN
         /\ Len(log) = 1
         /\ log[1].actor = actor
         /\ log[1].target = target
    /\ LET log == RemoveRoleLog(RDB, target, actor, fault) IN
       /\ Len(log) = 1
       /\ log[1].actor = actor
       /\ log[1].target = target

-----------------------------------------------------------------------------
(* Properties of the stock deduction of an order *)

\* the orders whose confirmation has been committed
ConfirmedOrders ==
  { oid \in DOMAIN orders :
      orders[oid].status \notin { OrderStatusPending, OrderStatusPaid } }

\* what the confirmed orders, each deducted once, take from the stock of a
\* product, and what they add to its order_count
DeductedOnce(pid) ==
  SumSeq([oid \in 1 .. Len(orders) |->
            IF oid \in ConfirmedOrders
            THEN QuantityOf(ItemsOf(DB, oid), pid) ELSE 0])

CountedOnce(pid) ==
  SumSeq([oid \in 1 .. Len(orders) |->
            IF oid \in ConfirmedOrders
            THEN Cardinality(LinesOf(ItemsOf(DB, oid), pid)) ELSE 0])

\* C31: the stock deduction of an order is applied at most once, also when
\* two ConfirmOrder calls on the same paid order run in separate
\* transactions at once: what has been taken from the stock of a product
\* never exceeds the line quantities of the confirmed orders, and what has
\* been added to its order_count never exceeds one per line of them.
C31_DeductedAtMostOnce ==
  \A pid \in DOMAIN products :
    /\ InitProducts[pid].stock - products[pid].stock <= DeductedOnce(pid)
    /\ products[pid].order_count - InitProducts[pid].order_count
         <= CountedOnce(pid)

-----------------------------------------------------------------------------
(* Properties of a CreateOrder that fails *)

\* C32: whenever CreateOrder returns an error, wherever it fails, the
\* failure of the commit and of the reload of the order after the commit
\* included, no order and no line item of the call is persisted.
C32_FailedCreateOrderPersistsNothing ==
  \A u \in Users, req \in OrderCreateRequest :
    \A fault \in CreateOrderFaults(req) :
      LET r == CreateOrder(DB, u, req, now, fault) IN
      r.err # "" => r.db.orders = orders /\ r.db.orderItems = orderItems

-----------------------------------------------------------------------------
(* Properties of the popularity count *)

\* the order a successful ConfirmOrder step has confirmed
ConfirmedBy(oid) ==
  /\ last' = [op |-> "ConfirmOrder", err |-> ""]
  /\ orders[oid].status = OrderStatusPaid
  /\ orders'[oid].status = OrderStatusConfirmed

-----------------------------------------------------------------------------
(* Properties of the stock check over the lines of a request *)

\* C34 as stated: CreateOrder accepts a request only if, for every product,
\* the quantities of all the lines naming it sum to no more than its stock;
\* two lines of one product that each fit the stock and together exceed it
\* are rejected.
C34_AcceptsOnlyWithinStockPerProduct ==
  \A u \in Users, req \in OrderCreateRequest :
    CreateOrder(DB, u, req, now, NoFault).err = "" =>
      \A pid \in DOMAIN products : QuantityOf(req, pid) <= products[pid].stock

\* C34, amended: CreateOrder accepts a request only if every line names an
\* existing product and asks for no more than its stock, each line taken
\* alone; a request of two lines of one product that each fit the stock is
\* accepted, its order number being free, also when together they exceed it.
C34_AcceptsOnlyWithinStockPerLine ==
  \A u \in Users, req \in OrderCreateRequest :
    LET r == CreateOrder(DB, u, req, now, NoFault) IN
    /\ r.err = "" =>
         \A k \in DOMAIN req :
           /\ req[k].product_id \in DOMAIN products
           /\ req[k].quantity <= products[req[k].product_id].stock
    /\ ( /\ Len(req) = 2
         /\ req[1].product_id = req[2].product_id
         /\ Oversell(DB, req[1].product_id, req[1].quantity, req[2].quantity)
         /\ ~OrderNumberTaken(DB, OrderNumber(now, u)) )
       => /\ r.err = ""
          /\ Len(ItemsOf(r.db, Len(orders) + 1)) = 2

\* an order was created whose two lines name one product, each within its
\* stock and together beyond it
C34_Witness ==
  /\ last = [op |-> "CreateOrder", err |-> ""]
  /\ \E oid \in DOMAIN orders :
       LET items == ItemsOf(DB, oid) IN
       /\ Len(items) = 2
       /\ items[1].product_id = items[2].product_id
       /\ Oversell(DB, items[1].product_id, items[1].quantity,
                   items[2].quantity)

-----------------------------------------------------------------------------
(* What a status transition leaves alone *)

\* C35: once an order is created no operation changes its owner, its order
\* number, its total_amount or its line items: PayOrder, ConfirmOrder,
\* ShipOrder, DeliverOrder, CancelOrder and UpdateOrderStatus change at most
\* its status, every existing line item stays as it is, and a line item that
\* is added belongs to an order created by the same step.
C35_OrderContentsFrozen ==
  [][ /\ \A oid \in DOMAIN orders :
           /\ oid \in DOMAIN orders'
           /\ orders'[oid].user_id = orders[oid].user_id
           /\ orders'[oid].order_number = orders[oid].order_number
           /\ orders'[oid].total_amount = orders[oid].total_amount
           /\ ItemsOf(DB, oid)' = ItemsOf(DB, oid)
      /\ \A i \in DOMAIN orderItems :
           i \in DOMAIN orderItems' /\ orderItems'[i] = orderItems[i]
      /\ \A i \in DOMAIN orderItems' \ DOMAIN orderItems :
           orderItems'[i].order_id \notin DOMAIN orders ]_vars

\* an order has gone from pending to delivered and still has its lines and
\* the total computed from them
C35_Witness ==
  \E oid \in DOMAIN orders :
    /\ orders[oid].status = "delivered"
    /\ Len(ItemsOf(DB, oid)) = 2
    /\ orders[oid].total_amount > 0
    /\ last.op = "DeliverOrder" /\ last.err = ""

-----------------------------------------------------------------------------
(* The history of the status of an order, requests served one at a time *)

\* how far a status is from pending
Rank(status) ==
  CASE status = OrderStatusPending   -> 0
    [] status = OrderStatusPaid      -> 1
    [] status = OrderStatusConfirmed -> 2
    [] status = OrderStatusShipped   -> 3
    [] OTHER                         -> 4

\* every call of an operation that writes the status of order oid
TransitionAttempts(db, oid) ==
  { PayOrder(db, oid, u) : u \in Users }
  \cup { UpdateOrderStatus(db, oid, u, st) : u \in Users, st \in OrderStatus }
  \cup { ConfirmOrder(db, oid, f) : f \in ConfirmOrderFaults(db, oid) }
  \cup { ShipOrder(db, oid), DeliverOrder(db, oid), CancelOrder(db, oid) }

\* the databases left by the successful transitions of order oid
Transitions(db, oid) ==
  { r.db : r \in { a \in TransitionAttempts(db, oid) : a.err = "" } }

\* the status histories of order oid over n successful transitions from db
RECURSIVE Histories(_, _, _)
Histories(db, oid, n) ==
  IF n = 0 THEN { << db.orders[oid].status >> }
  ELSE UNION { { << db.orders[oid].status >> \o h :
                   h \in Histories(d, oid, n - 1) } :
               d \in Transitions(db, oid) }

\* C36: with requests served one at a time the status history of an order is
\* strictly progressive: no history of a pending order names a status twice,
\* none has a fifth transition, every one of four transitions ends in
\* delivered or cancelled, every attempt on an order in delivered or
\* cancelled fails and leaves the store as it is, and every step that changes
\* the status of an order moves it further from pending.
C36_StatusHistoryProgressive ==
  /\ [](\A oid \in DOMAIN orders :
          /\ orders[oid].status = OrderStatusPending =>
               /\ Histories(DB, oid, 5) = {}
               /\ \A h \in Histories(DB, oid, 4) : h[5] \in Terminal
               /\ \A n \in 1..4 : \A h \in Histories(DB, oid, n) :
                    \A i, j \in DOMAIN h : i # j => h[i] # h[j]
          /\ orders[oid].status \in Terminal =>
               \A a \in TransitionAttempts(DB, oid) :
                 a.err # "" /\ a.db = DB)
  /\ [][\A oid \in DOMAIN orders :
          orders'[oid].status # orders[oid].status =>
            Rank(orders'[oid].status) > Rank(orders[oid].status)]_vars

\* an order has made its four transitions, and a further attempt on it has
\* just been refused
C36_Witness ==
  /\ \E oid \in DOMAIN orders :
       /\ orders[oid].status = OrderStatusDelivered
       /\ Transitions(DB, oid) = {}
  /\ \A oid \in DOMAIN orders : orders[oid].status \in Terminal
  /\ last.err = "order cannot be cancelled"

-----------------------------------------------------------------------------
(* ProductService.DeleteProduct.  Delete sets DeletedAt on the row and     *)
(* every query leaves such a row out: the products table of the model is   *)
(* the rows whose DeletedAt is not set.  The method runs its three          *)
(* statements on database.DB, outside any transaction.                      *)

\* Count of the order_items with this product_id, count > 0
HasOrderItems(db, productID) ==
  \E i \in DOMAIN db.orderItems : db.orderItems[i].product_id = productID

\* database.DB.Delete(&product)
DeleteProductRow(db, productID) ==
  [db EXCEPT !.products =
     [pid \in DOMAIN db.products \ {productID} |-> db.products[pid]]]

ProductService_DeleteProduct(db, productID) ==
  IF ~ProductFound(db, productID) THEN Result(db, "product not found")
  ELSE IF HasOrderItems(db, productID)
  THEN Result(db, "cannot delete product with existing orders")
  ELSE Result(DeleteProductRow(db, productID), "")

\* DELETE /super-admin/products/:id
AdminHandler_DeleteProduct(db, roles, userID, productID) ==
  IF ~SuperAdminMiddleware(roles, userID) THEN Result(db, AccessDenied)
  ELSE ProductService_DeleteProduct(db, productID)

IdleDelete == [pc |-> "idle", pid |-> 0]

\* the gate of the route, database.DB.First(&product, productID) and the
\* Count of the order items: the call answers here unless the count is 0
DeleteProductCount(p, u, pid) ==
  /\ procs[p].pc = "idle"
  /\ LET r == AdminHandler_DeleteProduct(DB, userRoles, u, pid) IN
     IF r.err # ""
     THEN /\ last' = [op |-> "DeleteProduct", err |-> r.err]
          /\ UNCHANGED procs
     ELSE /\ procs' = [procs EXCEPT ![p] = [pc |-> "counted", pid |-> pid]]
          /\ UNCHANGED last
  /\ UNCHANGED <<products, orders, orderItems, users, userRoles, now>>

\* database.DB.Delete(&product), on the rows as they are by now
DeleteProductDelete(p) ==
  /\ procs[p].pc = "counted"
  /\ products' = DeleteProductRow(DB, procs[p].pid).products
  /\ last' = [op |-> "DeleteProduct", err |-> ""]
  /\ procs' = [procs EXCEPT ![p] = IdleDelete]
  /\ UNCHANGED <<orders, orderItems, users, userRoles, now>>

InitDelete ==
  /\ products = EmptyDB.products
  /\ orders = EmptyDB.orders
  /\ orderItems = EmptyDB.orderItems
  /\ users = Users
  /\ userRoles = InitUserRoles
  /\ now = 0
  /\ last = [op |-> "none", err |-> ""]
  /\ procs = [p \in Procs |-> IdleDelete]

\* Checkout, payment and confirmation served while products are deleted
NextDelete ==
  \/ ReqCreateOrder({1, 2}, InventoryCarts)
  \/ ReqPayOrder
  \/ ReqAdminConfirmOrder
  \/ \E p \in Procs, u \in Users, pid \in ProductIDs :
       DeleteProductCount(p, u, pid)
  \/ \E p \in Procs : DeleteProductDelete(p)

SpecDelete == InitDelete /\ [][NextDelete]_vars

\* C37: every line item of every persisted order references a product that
\* is not deleted, also when DeleteProduct (count the line items, then
\* delete) is served while a CreateOrder naming the same product is served.
C37_LineItemsReferenceExistingProducts ==
  \A i \in DOMAIN orderItems : orderItems[i].product_id \in DOMAIN products

\* requests served one at a time: DeleteProduct refuses a product that a
\* line item references and a call that succeeds leaves no line item
\* without its product
C37_AtomicDeleteKeepsReferences ==
  \A u \in Users, pid \in ProductIDs :
    LET r == AdminHandler_DeleteProduct(DB, userRoles, u, pid) IN
    C37_LineItemsReferenceExistingProducts =>
      /\ HasOrderItems(DB, pid) => r.err # "" /\ r.db = DB
      /\ \A i \in DOMAIN r.db.orderItems :
           r.db.orderItems[i].product_id \in DOMAIN r.db.products

-----------------------------------------------------------------------------
(* The role gate after a change of role *)

\* the answers to the gated requests of user t: ConfirmOrder, DeliverOrder,
\* AssignRole and RemoveRole, on the orders db and the role assignments roles
GatedAnswers(db, roles, t) ==
  LET rdb == [users |-> users, userRoles |-> roles] IN
  { AdminHandler_ConfirmOrder(db, roles, t, oid, f).err :
      oid \in OrderIDs, f \in { NoFault, [step |-> "commit", at |-> 0] } }
  \cup { AdminHandler_DeliverOrder(db, roles, t, oid).err : oid \in OrderIDs }
  \cup { RoleHandler_AssignRole(rdb, t, target, roleName, NoFault).err :
           target \in UserIDs, roleName \in RoleNames }
  \cup { RoleHandler_RemoveRole(rdb, t, target, NoFault).err :
           target \in UserIDs }

-----------------------------------------------------------------------------
(* A super-admin acting on its own role *)

\* C39 as stated: no AssignRole or RemoveRole call of a super-admin that
\* names the caller itself succeeds in changing the caller's resolved role
\* away from super_admin.
C39_NoSelfDemotion ==
  \A a \in users, fault \in RoleFaults :
    GetUserRole(userRoles, a) = ROLE_SUPER_ADMIN =>
      /\ \A roleName \in RoleNames :
           LET r == RoleHandler_AssignRole(RDB, a, a, roleName, fault) IN
           r.err = "" =>
             GetUserRole(r.db.userRoles, a) = ROLE_SUPER_ADMIN
      /\ LET r == RoleHandler_RemoveRole(RDB, a, a, fault) IN
         r.err = "" => GetUserRole(r.db.userRoles, a) = ROLE_SUPER_ADMIN

\* C39, amended: self-demotion is blocked for RemoveRole only.  A RemoveRole
\* call of a super-admin that names the caller fails and leaves the role
\* assignments as they are; an AssignRole call of a super-admin that names
\* the caller and a role of the roles table succeeds when the store does not
\* fail, and the caller then resolves to that role.
C39_SelfDemotionOnlyByAssignRole ==
  \A a \in users :
    GetUserRole(userRoles, a) = ROLE_SUPER_ADMIN =>
      /\ \A fault \in RoleFaults :
           LET r == RoleHandler_RemoveRole(RDB, a, a, fault) IN
           r.err # "" /\ r.db = RDB
      /\ \A roleName \in RoleTable :
           LET r == RoleHandler_AssignRole(RDB, a, a, roleName, NoFault) IN
           SuperAdminMiddleware(userRoles, a) =>
             /\ r.err = ""
             /\ GetUserRole(r.db.userRoles, a) = roleName

\* a super-admin has given itself another role: the last call was a
\* successful AssignRole and no user resolves to super_admin any more
C39_Witness ==
  /\ last = [op |-> "AssignRole", err |-> ""]
  /\ \A u \in users : GetUserRole(userRoles, u) # ROLE_SUPER_ADMIN

====
